---- MODULE Spec2Model ----
(***************************************************************************)
(* Harmonic aggregation engine of quantumelodic-mvp                        *)
(* (src/src/harmonic_engine/engine.py, data_loader.py).                    *)
(*                                                                         *)
(* Number representation.  The engine computes with Python floats; every   *)
(* quantity below is an integer count of a fixed dyadic unit, so that the  *)
(* float computation is exact on the modelled inputs:                      *)
(*   planet and aspect weights   in halves        (3.0 -> 6, 2.5 -> 5)     *)
(*   orb                         in 2.5 degrees   (10.0 degrees -> 4)      *)
(*   closeness                   in quarters      (1.0 -> 4)               *)
(*   tension score               in eighths       (6.0 -> 48)              *)
(*   longitude                   in whole degrees                          *)
(* On this grid orb/10.0, 1.0-orb/10.0, weight*(1.0+closeness) and the     *)
(* running sum are exactly representable doubles, and                      *)
(* min(100, int((score/40.0)*100)) equals min(100, (score8*100) \div 320)  *)
(* for every score8 (checked exhaustively for score8 in 0..1600).          *)
(***************************************************************************)
EXTENDS Integers, Sequences, FiniteSets, TLC

VARIABLES
    chart,              \* the Chart handed to the engine (chart_builder.Chart / _ChartStub)
    files,              \* names of the CSV files present in the mappings directory
    modal_csv,          \* data rows of modal_families_index.csv, in file order
    timbres_csv,        \* rows of element_timbres.csv, in file order
    pc,                 \* position of the caller / of run_harmonic_engine
    pent_scores,        \* _aggregate_canonical_modes: pent_scores at the end of the loop
    quad_scores,        \* _aggregate_canonical_modes: quad_scores at the end of the loop
    primary_pent,       \* run_harmonic_engine: primary_pent
    primary_quad,       \* run_harmonic_engine: primary_quad
    tension,            \* run_harmonic_engine: tension
    dominant_element,   \* run_harmonic_engine: dominant_element
    payload,            \* run_harmonic_engine: payload
    result,             \* the HarmonicResult returned by run_harmonic_engine
    reads,              \* how often each CSV file has been opened in this process
    outputs,            \* what the consumers of the HarmonicResult have produced
    ascendant,          \* build_chart_from_birth_data: ascendant
    arg,                \* the arguments of the helper function under call
    ret                 \* what that helper function returned

vars == <<chart, files, modal_csv, timbres_csv, pc, pent_scores, quad_scores,
          primary_pent, primary_quad, tension, dominant_element, payload, result,
          reads, outputs, ascendant, arg, ret>>

tableVars == <<files, modal_csv, timbres_csv>>

helperVars == <<ascendant, arg, ret>>

localVars == <<pent_scores, quad_scores, primary_pent, primary_quad, tension,
               dominant_element, payload, result>>

(***************************************************************************)
(* Bounds of the model.                                                    *)
(***************************************************************************)
\* entries of chart.positions
MaxPositions == 2
\* freely chosen entries of chart.aspects
MaxAspects == 2
\* further entries of chart.aspects, each equal to the entry before it
MaxRun == 6
\* calls of run_harmonic_engine in one process
MaxCalls == 2
\* bodies in the positions handed to find_aspects
MaxBodies == 3
\* tokens of a semitone pattern
MaxTokens == 3
\* octaves asked of generate_scale_notes
MaxOctaves == 2

(***************************************************************************)
(* Ordered dictionaries.  A Python dict, defaultdict or Counter is a       *)
(* sequence of [k, v] items in insertion order.                            *)
(***************************************************************************)
DictKeys(d) == {d[i].k : i \in 1..Len(d)}

Range(s) == {s[i] : i \in 1..Len(s)}

DictGet(d, key, default) ==
    IF key \in DictKeys(d)
    THEN d[CHOOSE i \in 1..Len(d) : d[i].k = key].v
    ELSE default

\* d[key] += w on a defaultdict(float) / Counter: a new key is inserted last
DictAdd(d, key, w) ==
    IF key \in DictKeys(d)
    THEN [i \in 1..Len(d) |-> IF d[i].k = key THEN [k |-> key, v |-> d[i].v + w] ELSE d[i]]
    ELSE Append(d, [k |-> key, v |-> w])

\* d[key] = value: an existing key keeps its place
DictSet(d, key, value) ==
    IF key \in DictKeys(d)
    THEN [i \in 1..Len(d) |-> IF d[i].k = key THEN [k |-> key, v |-> value] ELSE d[i]]
    ELSE Append(d, [k |-> key, v |-> value])

\* max() keeping the last of several maximal items
MaxKeyLast(d) ==
    d[CHOOSE i \in 1..Len(d) :
        /\ \A j \in 1..Len(d) : d[j].v <= d[i].v
        /\ \A j \in (i+1)..Len(d) : d[j].v < d[i].v].k

\* max(d.items(), key=lambda x: x[1])[0]: the first item, in iteration
\* order, whose value no item exceeds
MaxKey(d) ==
    d[CHOOSE i \in 1..Len(d) :
        /\ \A j \in 1..Len(d) : d[j].v <= d[i].v
        /\ \A j \in 1..(i-1) : d[j].v < d[i].v].k

(***************************************************************************)
(* Tension scorer: engine.py, _compute_harmonic_tension.                   *)
(***************************************************************************)
\* weights in halves
ASPECT_WEIGHTS ==
    [Conjunction |-> 2, Opposition |-> 6, Trine |-> 3, Square |-> 5, Sextile |-> 2]

\* ASPECT_WEIGHTS.get(name, 1.0)
AspectWeight(name) ==
    IF name \in DOMAIN ASPECT_WEIGHTS THEN ASPECT_WEIGHTS[name] ELSE 2

\* a.get('orb', 0.0), in units of 2.5 degrees
AspectOrb(a) == IF a.has_orb THEN a.orb ELSE 0

\* closeness without the clamp at 0.0
ClosenessUnclamped(orb) == 4 - orb

\* max(0.0, 1.0 - (orb / 10.0)), in quarters
Closeness(orb) == IF 4 - orb > 0 THEN 4 - orb ELSE 0

\* weight * closeness: an aspect at 10 degrees or more adds nothing
AspectContributionByCloseness(a) == AspectWeight(a.aspect) * Closeness(AspectOrb(a))

\* weight * (1.0 + closeness), in eighths
AspectContribution(a) == AspectWeight(a.aspect) * (4 + Closeness(AspectOrb(a)))

\* the loop of _compute_harmonic_tension: score after the first n aspects
RECURSIVE TensionScore(_, _)
TensionScore(aspects, n) ==
    IF n = 0 THEN 0
    ELSE TensionScore(aspects, n - 1) + AspectContribution(aspects[n])

\* the index without the cap at 100
TensionIndexUncapped(score8) == (score8 * 100) \div 320

\* min(100, int((score / max_expected) * 100)) with max_expected = 40.0
TensionIndex(score8) ==
    IF (score8 * 100) \div 320 < 100 THEN (score8 * 100) \div 320 ELSE 100

\* a guard that returns 0 for a chart without positions
TensionNeedsPositions(c) ==
    IF c.positions = <<>> THEN 0
    ELSE TensionIndex(TensionScore(c.aspects, Len(c.aspects)))

\* the running total kept at module level: a call that follows another
\* starts from the total of the first
TensionCarriedOver(c) ==
    IF tension < 0 THEN TensionIndex(TensionScore(c.aspects, Len(c.aspects)))
    ELSE TensionIndex(2 * TensionScore(c.aspects, Len(c.aspects)))

_compute_harmonic_tension(c) == TensionIndex(TensionScore(c.aspects, Len(c.aspects)))

(***************************************************************************)
(* Lookup tables: data_loader.py.                                          *)
(***************************************************************************)
FILE_PENT == "pentatonic_modes.csv"

FILE_QUAD == "quadratonic_modes.csv"

FILE_INDEX == "modal_families_index.csv"

FILE_TIMBRES == "element_timbres.csv"

AllFiles == {FILE_PENT, FILE_QUAD, FILE_INDEX, FILE_TIMBRES}

\* A data row of modal_families_index.csv.  A column that is absent from the
\* header, empty or blank after strip() is "".
FamilyRow(sign, pid, plegacy, qid, qlegacy) ==
    [sign |-> sign, pentatonic_mode_id |-> pid, pentatonic_mode |-> plegacy,
     quadratonic_mode_id |-> qid, quadratonic_mode |-> qlegacy]

\* {}: the default of modal_index.get(sign, {})
EmptyFamily == FamilyRow("", "", "", "", "")

\* load_modal_families_index: mapping[sign] = row for every row with a sign
RECURSIVE LoadModalRows(_, _)
LoadModalRows(csv, n) ==
    IF n = 0 THEN <<>>
    ELSE IF csv[n].sign = "" THEN LoadModalRows(csv, n - 1)
    ELSE DictSet(LoadModalRows(csv, n - 1), csv[n].sign, csv[n])

load_modal_families_index(csv) == LoadModalRows(csv, Len(csv))

\* load_element_timbres: {} when the file does not exist, else
\* timbre_map[key] = values for every row
RECURSIVE LoadTimbreRows(_, _)
LoadTimbreRows(csv, n) ==
    IF n = 0 THEN <<>>
    ELSE DictSet(LoadTimbreRows(csv, n - 1), csv[n].key, csv[n].values)

load_element_timbres(fs, csv) ==
    IF FILE_TIMBRES \in fs THEN LoadTimbreRows(csv, Len(csv)) ELSE <<>>

\* the pentatonic and quadratonic loaders guarded by path.exists() as the
\* timbre loader is
LoadDataRaisesIndexOnly(fs) == FILE_INDEX \notin fs

\* _load_data: open() raises FileNotFoundError for a missing pentatonic,
\* quadratonic or index file
LoadDataRaises(fs) == ~ ({FILE_PENT, FILE_QUAD, FILE_INDEX} \subseteq fs)

\* open(path) of one file
ReadFile(rd, f) == [rd EXCEPT ![f] = @ + 1]

\* _load_data opens the files in the order pentatonic, quadratonic, index,
\* timbres, stops at the first of the former three that is missing, and
\* opens the timbres file only if path.exists()
LoadDataReads(fs, rd) ==
    IF FILE_PENT \notin fs THEN rd
    ELSE IF FILE_QUAD \notin fs THEN ReadFile(rd, FILE_PENT)
    ELSE IF FILE_INDEX \notin fs THEN ReadFile(ReadFile(rd, FILE_PENT), FILE_QUAD)
    ELSE IF FILE_TIMBRES \notin fs
         THEN ReadFile(ReadFile(ReadFile(rd, FILE_PENT), FILE_QUAD), FILE_INDEX)
    ELSE ReadFile(ReadFile(ReadFile(ReadFile(rd, FILE_PENT), FILE_QUAD), FILE_INDEX),
                  FILE_TIMBRES)

(***************************************************************************)
(* Modal aggregator: engine.py, _aggregate_canonical_modes.                *)
(***************************************************************************)
\* weights in halves
PLANET_WEIGHTS == [Sun |-> 6, Moon |-> 5, Rising |-> 4]

DEFAULT_PLANET_WEIGHT == 2

\* PLANET_WEIGHTS.get(planet_name, 0.0)
GetPlanetWeightNoDefault(p) ==
    IF p \in DOMAIN PLANET_WEIGHTS THEN PLANET_WEIGHTS[p] ELSE 0

_get_planet_weight(p) ==
    IF p \in DOMAIN PLANET_WEIGHTS THEN PLANET_WEIGHTS[p] ELSE DEFAULT_PLANET_WEIGHT

SIGNS == <<"Aries", "Taurus", "Gemini", "Cancer", "Leo", "Virgo", "Libra", "Scorpio",
           "Sagittarius", "Capricorn", "Aquarius", "Pisces">>

\* Longitudes are whole degrees, with one exception.  A double lon with
\* -360 * 2^-53 <= lon < 0 (about -4e-14; -1e-20, say) has lon % 360.0 equal to
\* 360.0, because the exact remainder 360 - |lon| rounds to 360.0.  The value
\* TinyNegative stands for such a longitude.
TinyNegative == -1000000

\* lon % 360.0 on doubles
FloatMod360(lon) == IF lon = TinyNegative THEN 360 ELSE lon % 360

\* what a call returns when indexing a list raises IndexError
IndexError == "IndexError"

\* signs[int((lon % 360) // 30)]
_infer_sign_from_lon(lon) ==
    LET idx == FloatMod360(lon) \div 30
    IN  IF idx + 1 \in DOMAIN SIGNS THEN SIGNS[idx + 1] ELSE IndexError

\* Values of chart.positions.
NonePos == [tag |-> "None", lon |-> 0]

PlanetPosition(lon) == [tag |-> "PlanetPosition", lon |-> lon]

\* getattr(pos, 'lon', 0.0)
GetLon(pos) == IF pos.tag = "PlanetPosition" THEN pos.lon ELSE 0

PositionKeys(c) == [i \in 1..Len(c.positions) |-> c.positions[i].k]

\* list(dict.fromkeys(s)): first occurrences, in order
RECURSIVE DictFromKeys(_)
DictFromKeys(s) ==
    IF s = <<>> THEN <<>>
    ELSE LET front == DictFromKeys(SubSeq(s, 1, Len(s) - 1))
             last  == s[Len(s)]
         IN  IF last \in Range(front) THEN front ELSE Append(front, last)

\* the contributor list without dict.fromkeys
ContributorsNoDedup(c) == <<"Sun", "Moon", "Rising">> \o PositionKeys(c)

\* line 72
Contributors(c) == DictFromKeys(<<"Sun", "Moon", "Rising">> \o PositionKeys(c))

\* a missing position read as longitude 0.0 instead of skipped
ContributorNeverSkipped(c, p) == FALSE

\* lines 76-87: the contributor is skipped (continue) or resolves to a sign
ContributorSkipped(c, p) ==
    /\ p \notin {"Rising", "Sun", "Moon"}
    /\ DictGet(c.positions, p, NonePos).tag = "None"

\* lines 76-87: the sign the contributor votes with
ContributorSign(c, p) ==
    IF p = "Rising" THEN c.rising_sign
    ELSE IF p = "Sun" THEN c.sun_sign
    ELSE IF p = "Moon" THEN c.moon_sign
    ELSE _infer_sign_from_lon(GetLon(DictGet(c.positions, p, NonePos)))

\* a or b on strings and None
OrElse(a, b) == IF a # "" THEN a ELSE b

\* a row without pentatonic ID lends its quadratonic ID
PentIdOrQuad(family) ==
    OrElse(OrElse(family.pentatonic_mode_id, family.pentatonic_mode),
           family.quadratonic_mode_id)

\* family.get('pentatonic_mode_id') or family.get('pentatonic_mode')
PentId(family) == OrElse(family.pentatonic_mode_id, family.pentatonic_mode)

QuadId(family) == OrElse(family.quadratonic_mode_id, family.quadratonic_mode)

\* votes accumulated per sign instead of per mode ID
VoteBySign(scores, modal_index, c, p) ==
    LET family  == DictGet(modal_index, ContributorSign(c, p), EmptyFamily)
        pent_id == PentId(family)
        quad_id == QuadId(family)
    IN  [pent |-> IF pent_id # "" THEN DictAdd(scores.pent, ContributorSign(c, p), _get_planet_weight(p))
                  ELSE scores.pent,
         quad |-> IF quad_id # "" THEN DictAdd(scores.quad, ContributorSign(c, p), _get_planet_weight(p))
                  ELSE scores.quad]

\* lines 89-96 for one contributor
Vote(scores, modal_index, c, p) ==
    LET family  == DictGet(modal_index, ContributorSign(c, p), EmptyFamily)
        pent_id == PentId(family)
        quad_id == QuadId(family)
    IN  [pent |-> IF pent_id # "" THEN DictAdd(scores.pent, pent_id, _get_planet_weight(p))
                  ELSE scores.pent,
         quad |-> IF quad_id # "" THEN DictAdd(scores.quad, quad_id, _get_planet_weight(p))
                  ELSE scores.quad]

\* break in place of continue at line 85: the loop ends at the first
\* contributor whose position is None
RECURSIVE AggregateLoopBreak(_, _, _, _)
AggregateLoopBreak(c, modal_index, contributors, n) ==
    IF n = 0 THEN [pent |-> <<>>, quad |-> <<>>]
    ELSE IF \E i \in 1..n : ContributorSkipped(c, contributors[i])
         THEN AggregateLoopBreak(c, modal_index, contributors, n - 1)
         ELSE Vote(AggregateLoopBreak(c, modal_index, contributors, n - 1),
                   modal_index, c, contributors[n])

\* the loop of lines 74-96 over the first n contributors
RECURSIVE AggregateLoop(_, _, _, _)
AggregateLoop(c, modal_index, contributors, n) ==
    IF n = 0 THEN [pent |-> <<>>, quad |-> <<>>]
    ELSE LET before == AggregateLoop(c, modal_index, contributors, n - 1)
             p      == contributors[n]
         IN  IF ContributorSkipped(c, p) THEN before
             ELSE Vote(before, modal_index, c, p)

AggregateScores(c, modal_index) ==
    AggregateLoop(c, modal_index, Contributors(c), Len(Contributors(c)))

\* no sentinel for an empty score table
PrimaryModeNoSentinel(scores) == IF scores # <<>> THEN MaxKey(scores) ELSE ""

\* max(scores.items(), key=lambda x: x[1])[0] if scores else 'UNKNOWN'
PrimaryMode(scores) == IF scores # <<>> THEN MaxKey(scores) ELSE "UNKNOWN"

_aggregate_canonical_modes(c, modal_index) ==
    LET scores == AggregateScores(c, modal_index)
    IN  [pent |-> PrimaryMode(scores.pent), quad |-> PrimaryMode(scores.quad)]

(***************************************************************************)
(* Element resolver: engine.py, _determine_dominant_element.               *)
(***************************************************************************)
ELEMENT_BY_SIGN ==
    [Aries |-> "Fire", Leo |-> "Fire", Sagittarius |-> "Fire",
     Taurus |-> "Earth", Virgo |-> "Earth", Capricorn |-> "Earth",
     Gemini |-> "Air", Libra |-> "Air", Aquarius |-> "Air",
     Cancer |-> "Water", Scorpio |-> "Water", Pisces |-> "Water"]

\* a lookup that never matches a key of ELEMENT_BY_SIGN
ElementOfSignNoMatch(sign) == "Unknown"

\* ELEMENT_BY_SIGN.get(sign, 'Unknown')
ElementOfSign(sign) ==
    IF sign \in DOMAIN ELEMENT_BY_SIGN THEN ELEMENT_BY_SIGN[sign] ELSE "Unknown"

\* the loop passes over the positions keyed 'Sun' and 'Moon', as the modal
\* aggregator does
RECURSIVE CountPositionsSkipLuminaries(_, _, _)
CountPositionsSkipLuminaries(counts, positions, n) ==
    IF n = 0 THEN counts
    ELSE IF positions[n].k \in {"Sun", "Moon"}
         THEN CountPositionsSkipLuminaries(counts, positions, n - 1)
         ELSE DictAdd(CountPositionsSkipLuminaries(counts, positions, n - 1),
                      _infer_sign_from_lon(GetLon(positions[n].v)), 1)

\* lines 123-126: sign_counts after the first n values of chart.positions
RECURSIVE CountPositions(_, _, _)
CountPositions(counts, positions, n) ==
    IF n = 0 THEN counts
    ELSE DictAdd(CountPositions(counts, positions, n - 1),
                 _infer_sign_from_lon(GetLon(positions[n].v)), 1)

\* the tally without the loop over chart.positions
SignCountsLuminariesOnly(c) ==
    DictAdd(DictAdd(DictAdd(<<>>, c.sun_sign, 1), c.moon_sign, 1), c.rising_sign, 1)

\* lines 119-126
SignCounts(c) ==
    CountPositions(
        DictAdd(DictAdd(DictAdd(<<>>, c.sun_sign, 1), c.moon_sign, 1), c.rising_sign, 1),
        c.positions, Len(c.positions))

\* lines 128-131: element_counts after the first n items of sign_counts
RECURSIVE ElementCounts(_, _)
ElementCounts(sign_counts, n) ==
    IF n = 0 THEN <<>>
    ELSE DictAdd(ElementCounts(sign_counts, n - 1),
                 ElementOfSign(sign_counts[n].k), sign_counts[n].v)

\* element_counts.most_common(1)[0][0] if element_counts else 'Unknown'
MostCommon(element_counts) ==
    IF element_counts # <<>> THEN MaxKey(element_counts) ELSE "Unknown"

_determine_dominant_element(c) ==
    MostCommon(ElementCounts(SignCounts(c), Len(SignCounts(c))))

(***************************************************************************)
(* Sonic payload builder: engine.py, _build_sonic_payload.                 *)
(***************************************************************************)
waveform_map == [Water |-> "sine", Fire |-> "sawtooth", Air |-> "triangle", Earth |-> "square"]

\* an element outside the map gets the last waveform of the map
WaveformNoDefault(element) ==
    IF element \in DOMAIN waveform_map THEN waveform_map[element] ELSE "square"

\* waveform_map.get(dominant_element, 'sine')
Waveform(element) ==
    IF element \in DOMAIN waveform_map THEN waveform_map[element] ELSE "sine"

\* round() in place of int()
TempoRounded(t) == 60 + ((t * 80 + 50) \div 100)

\* 60 + int((tension / 100.0) * 80); equal to the integer form for 0..100
Tempo(t) == 60 + ((t * 80) \div 100)

\* the test "if not timbres" left out
TimbresNoFallback(element, timbre_map) == DictGet(timbre_map, element, <<>>)

\* lines 147-149
Timbres(element, timbre_map) ==
    LET timbres == DictGet(timbre_map, element, <<>>)
    IN  IF timbres # <<>> THEN timbres
        ELSE IF element \in {"Water", "Air"} THEN <<"piano", "strings">>
        ELSE <<"guitar", "organ">>

_build_sonic_payload(element, t, timbre_map) ==
    [waveform |-> Waveform(element), recommended_tempo_bpm |-> Tempo(t),
     timbres |-> Timbres(element, timbre_map)]

(***************************************************************************)
(* Inputs.                                                                 *)
(***************************************************************************)
\* sign labels a chart carries: three canonical signs and "C", the label
\* _ChartStub gets when a pentatonic row has neither sign nor mode
SignChoices == {"Leo", "Gemini", "Aquarius", "C"}

\* keys of chart.positions: a luminary and two other planets
PlanetKeys == {"Sun", "Mercury", "Venus"}

\* None, a longitude in Leo, a longitude in Aquarius
PositionValues == {NonePos, PlanetPosition(130), PlanetPosition(310)}

AspectKinds == {"Conjunction", "Opposition", "Trine", "Square", "Sextile", "Quincunx"}

\* no orb key; -2.5, 0, 5 and 12.5 degrees
AspectRecords ==
    {[aspect |-> kd, has_orb |-> FALSE, orb |-> 0] : kd \in AspectKinds}
    \cup {[aspect |-> kd, has_orb |-> TRUE, orb |-> o] : kd \in AspectKinds, o \in {-1, 0, 2, 5}}

MakeChart(sun, moon, rising, positions, aspects) ==
    [sun_sign |-> sun, moon_sign |-> moon, rising_sign |-> rising,
     positions |-> positions, aspects |-> aspects]

\* the table of the specification's scenario
TableScenario ==
    << FamilyRow("Leo", "PENT-LEO-1", "", "QUAD-LEO-1", ""),
       FamilyRow("Gemini", "PENT-GEM-1", "", "QUAD-GEM-1", ""),
       FamilyRow("Aquarius", "PENT-AQU-1", "", "QUAD-AQU-1", "") >>

\* signs of one element share a pentatonic mode
TableShared ==
    << FamilyRow("Aries", "PENT-FIRE", "", "QUAD-ARI-1", ""),
       FamilyRow("Leo", "PENT-FIRE", "", "QUAD-LEO-1", ""),
       FamilyRow("Gemini", "PENT-AIR", "", "QUAD-AIR", ""),
       FamilyRow("Aquarius", "PENT-AIR", "", "QUAD-AIR", "") >>

\* a row without sign, legacy column names, rows with one family only
TablePartial ==
    << FamilyRow("", "PENT-X", "", "QUAD-X", ""),
       FamilyRow("Leo", "", "PENT-LEO-1", "", ""),
       FamilyRow("Gemini", "", "", "QUAD-GEM-1", "") >>

ModalTables == {<<>>, TableScenario, TableShared, TablePartial}

TimbreTables ==
    {<<>>,
     << [key |-> "Fire", values |-> <<"brass", "drums">>],
        [key |-> "Air", values |-> <<>>] >>}

NoPayload == [waveform |-> "", recommended_tempo_bpm |-> 0, timbres |-> <<>>]

NoResult ==
    [primary_pentatonic_mode |-> "", primary_quadratonic_mode |-> "",
     harmonic_tension_index |-> -1, dominant_element |-> "", sonic_payload |-> NoPayload]

InitLocals ==
    /\ pc = "idle"
    /\ pent_scores = <<>>
    /\ quad_scores = <<>>
    /\ primary_pent = ""
    /\ primary_quad = ""
    /\ tension = -1
    /\ dominant_element = ""
    /\ payload = NoPayload
    /\ result = NoResult
    /\ reads = [f \in AllFiles |-> 0]
    /\ outputs = <<>>

InitHelpers ==
    /\ ascendant = 0
    /\ arg = <<>>
    /\ ret = <<>>

(***************************************************************************)
(* The chart provider.                                                     *)
(***************************************************************************)
\* chart.positions[key] = pos for a new key
AddPosition(key, pos) ==
    /\ pc = "idle"
    /\ Len(chart.positions) < MaxPositions
    /\ key \notin DictKeys(chart.positions)
    /\ chart' = [chart EXCEPT !.positions = Append(@, [k |-> key, v |-> pos])]
    /\ UNCHANGED <<tableVars, helperVars, reads, outputs, pc, localVars>>

\* chart.aspects.append(a)
AppendAspect(a) ==
    /\ pc = "idle"
    /\ \/ Len(chart.aspects) < MaxAspects
       \/ /\ Len(chart.aspects) > 0
          /\ Len(chart.aspects) < MaxAspects + MaxRun
          /\ a = chart.aspects[Len(chart.aspects)]
    /\ chart' = [chart EXCEPT !.aspects = Append(@, a)]
    /\ UNCHANGED <<tableVars, helperVars, reads, outputs, pc, localVars>>

(***************************************************************************)
(* Calls of the three chart computations.                                  *)
(***************************************************************************)
CallAggregate ==
    /\ pc = "idle"
    /\ IF LoadDataRaises(files)
       THEN /\ pc' = "raised"
            /\ UNCHANGED <<pent_scores, quad_scores, primary_pent, primary_quad>>
       ELSE LET modal_index == load_modal_families_index(modal_csv)
                scores      == AggregateScores(chart, modal_index)
                modes       == _aggregate_canonical_modes(chart, modal_index)
            IN  /\ pent_scores' = scores.pent
                /\ quad_scores' = scores.quad
                /\ primary_pent' = modes.pent
                /\ primary_quad' = modes.quad
                /\ pc' = "aggregated"
    /\ reads' = LoadDataReads(files, reads)
    /\ UNCHANGED <<chart, tableVars, helperVars, outputs, tension, dominant_element, payload, result>>

CallTension ==
    /\ pc = "idle"
    /\ tension' = _compute_harmonic_tension(chart)
    /\ pc' = "scored"
    /\ UNCHANGED <<chart, tableVars, helperVars, reads, outputs, pent_scores, quad_scores,
                   primary_pent, primary_quad, dominant_element, payload, result>>

CallElement ==
    /\ pc = "idle"
    /\ dominant_element' = _determine_dominant_element(chart)
    /\ pc' = "resolved"
    /\ UNCHANGED <<chart, tableVars, helperVars, reads, outputs, pent_scores, quad_scores,
                   primary_pent, primary_quad, tension, payload, result>>

(***************************************************************************)
(* Specification of the modal aggregator: any signs, any table, positions  *)
(* added one by one, then the call.                                        *)
(***************************************************************************)
Init ==
    /\ chart \in {MakeChart(s, m, r, <<>>, <<>>) :
                    s \in SignChoices, m \in SignChoices, r \in SignChoices}
    /\ files = AllFiles
    /\ modal_csv \in ModalTables
    /\ timbres_csv = <<>>
    /\ InitLocals
    /\ InitHelpers

Next ==
    \/ \E key \in PlanetKeys, pos \in PositionValues : AddPosition(key, pos)
    \/ CallAggregate

Spec == Init /\ [][Next]_vars

(***************************************************************************)
(* Specification of the element resolver: any signs, positions added one   *)
(* by one, then the call.                                                  *)
(***************************************************************************)
InitElement ==
    /\ chart \in {MakeChart(s, m, r, <<>>, <<>>) :
                    s \in SignChoices, m \in SignChoices, r \in SignChoices}
    /\ files = AllFiles
    /\ modal_csv = TableScenario
    /\ timbres_csv = <<>>
    /\ InitLocals
    /\ InitHelpers

NextElement ==
    \/ \E key \in PlanetKeys, pos \in PositionValues : AddPosition(key, pos)
    \/ CallElement

SpecElement == InitElement /\ [][NextElement]_vars

(***************************************************************************)
(* Specification of the tension scorer: the scenario chart, aspects        *)
(* appended one by one.                                                    *)
(***************************************************************************)
InitTension ==
    /\ chart = MakeChart("Leo", "Gemini", "Aquarius", <<>>, <<>>)
    /\ files = AllFiles
    /\ modal_csv = TableScenario
    /\ timbres_csv = <<>>
    /\ InitLocals
    /\ InitHelpers

NextTension ==
    \/ \E a \in AspectRecords : AppendAspect(a)
    \/ CallTension

SpecTension == InitTension /\ [][NextTension]_vars

(***************************************************************************)
(* run_harmonic_engine, one action per statement (engine.py 153-165).      *)
(***************************************************************************)
\* line 154: primary_pent, primary_quad = _aggregate_canonical_modes(chart)
RunAggregate ==
    /\ pc = "idle"
    /\ IF LoadDataRaises(files)
       THEN /\ pc' = "raised"
            /\ UNCHANGED <<pent_scores, quad_scores, primary_pent, primary_quad>>
       ELSE LET modal_index == load_modal_families_index(modal_csv)
                scores      == AggregateScores(chart, modal_index)
                modes       == _aggregate_canonical_modes(chart, modal_index)
            IN  /\ pent_scores' = scores.pent
                /\ quad_scores' = scores.quad
                /\ primary_pent' = modes.pent
                /\ primary_quad' = modes.quad
                /\ pc' = "run_tension"
    /\ reads' = LoadDataReads(files, reads)
    /\ UNCHANGED <<chart, tableVars, helperVars, outputs, tension, dominant_element, payload, result>>

\* lines 156 and 157 in the other order: the payload is built next
RunTensionThenPayload ==
    /\ pc = "run_tension"
    /\ tension' = _compute_harmonic_tension(chart)
    /\ pc' = "run_payload"
    /\ UNCHANGED <<chart, tableVars, helperVars, reads, outputs, pent_scores, quad_scores,
                   primary_pent, primary_quad, dominant_element, payload, result>>

\* line 155: tension = _compute_harmonic_tension(chart)
RunTension ==
    /\ pc = "run_tension"
    /\ tension' = _compute_harmonic_tension(chart)
    /\ pc' = "run_element"
    /\ UNCHANGED <<chart, tableVars, helperVars, reads, outputs, pent_scores, quad_scores,
                   primary_pent, primary_quad, dominant_element, payload, result>>

\* line 156: dominant_element = _determine_dominant_element(chart)
RunElement ==
    /\ pc = "run_element"
    /\ dominant_element' = _determine_dominant_element(chart)
    /\ pc' = "run_payload"
    /\ UNCHANGED <<chart, tableVars, helperVars, reads, outputs, pent_scores, quad_scores,
                   primary_pent, primary_quad, tension, payload, result>>

\* line 157: payload = _build_sonic_payload(dominant_element, tension)
RunPayload ==
    /\ pc = "run_payload"
    /\ IF LoadDataRaises(files)
       THEN /\ pc' = "raised"
            /\ UNCHANGED payload
       ELSE /\ payload' = _build_sonic_payload(dominant_element, tension,
                                               load_element_timbres(files, timbres_csv))
            /\ pc' = "run_return"
    /\ reads' = LoadDataReads(files, reads)
    /\ UNCHANGED <<chart, tableVars, helperVars, outputs, pent_scores, quad_scores, primary_pent, primary_quad,
                   tension, dominant_element, result>>

\* the tempo is stored where the tension index belongs
RunReturnTempoAsIndex ==
    /\ pc = "run_return"
    /\ result' = [primary_pentatonic_mode |-> primary_pent,
                  primary_quadratonic_mode |-> primary_quad,
                  harmonic_tension_index |-> payload.recommended_tempo_bpm,
                  dominant_element |-> dominant_element,
                  sonic_payload |-> payload]
    /\ pc' = "returned"
    /\ UNCHANGED <<chart, tableVars, helperVars, reads, outputs, pent_scores, quad_scores,
                   primary_pent, primary_quad, tension, dominant_element, payload>>

\* lines 159-165: return HarmonicResult(...)
RunReturn ==
    /\ pc = "run_return"
    /\ result' = [primary_pentatonic_mode |-> primary_pent,
                  primary_quadratonic_mode |-> primary_quad,
                  harmonic_tension_index |-> tension,
                  dominant_element |-> dominant_element,
                  sonic_payload |-> payload]
    /\ pc' = "returned"
    /\ UNCHANGED <<chart, tableVars, helperVars, reads, outputs, pent_scores, quad_scores,
                   primary_pent, primary_quad, tension, dominant_element, payload>>

(***************************************************************************)
(* Specification of run_harmonic_engine: a few charts, every table, the    *)
(* mappings directory complete or lacking one file.                        *)
(***************************************************************************)
EngineSigns ==
    {<<"Leo", "Gemini", "Aquarius">>, <<"C", "C", "C">>, <<"Leo", "Leo", "Gemini">>}

EnginePositions ==
    {<<>>,
     <<[k |-> "Mercury", v |-> PlanetPosition(130)]>>,
     <<[k |-> "Sun", v |-> PlanetPosition(130)], [k |-> "Mercury", v |-> NonePos]>>,
     <<[k |-> "Venus", v |-> NonePos]>>}

ExactOpposition == [aspect |-> "Opposition", has_orb |-> TRUE, orb |-> 0]

EngineAspects ==
    {<<>>, <<ExactOpposition>>,
     <<ExactOpposition, ExactOpposition, ExactOpposition, ExactOpposition,
       ExactOpposition, ExactOpposition, ExactOpposition>>}

InitEngine ==
    /\ chart \in {MakeChart(sg[1], sg[2], sg[3], ps, as) :
                    sg \in EngineSigns, ps \in EnginePositions, as \in EngineAspects}
    /\ files \in {AllFiles} \cup {AllFiles \ {f} : f \in AllFiles}
    /\ modal_csv \in ModalTables
    /\ timbres_csv \in TimbreTables
    /\ InitLocals
    /\ InitHelpers

NextEngine ==
    \/ RunAggregate
    \/ RunTension
    \/ RunElement
    \/ RunPayload
    \/ RunReturn

SpecEngine == InitEngine /\ [][NextEngine]_vars

(***************************************************************************)
(* Specification of repeated runs: the caller invokes run_harmonic_engine  *)
(* again with the same chart and the same files; the names of the previous *)
(* call still hold its values when the next call starts.                   *)
(***************************************************************************)
Reinvoke ==
    /\ pc \in {"returned", "raised"}
    /\ \A f \in AllFiles : reads[f] < 2 * MaxCalls
    /\ pc' = "idle"
    /\ UNCHANGED <<chart, tableVars, helperVars, reads, outputs, localVars>>

NextRepeat ==
    \/ NextEngine
    \/ Reinvoke

SpecRepeat == InitEngine /\ [][NextRepeat]_vars

(***************************************************************************)
(* Consumers of the HarmonicResult: midi_engine.generate_midi_from_result  *)
(* and ai_music_engine.MusicPromptBuilder.  A semitone pattern is the      *)
(* tuple of the tokens between its dashes, <<>> for the empty string; a    *)
(* text is the tuple of its parts.                                         *)
(***************************************************************************)
\* semitone_pattern column of pentatonic_modes.csv / quadratonic_modes.csv,
\* <<>> for an empty cell
PentPatterns ==
    << [k |-> "PENT-LEO-1", v |-> <<"3", "2", "2", "3", "2">>],
       [k |-> "PENT-AIR", v |-> <<>>],
       [k |-> "PENT-DRAFT", v |-> <<"x">>] >>

QuadPatterns ==
    << [k |-> "QUAD-AIR", v |-> <<"3", "4", "5">>],
       [k |-> "QUAD-GEM-1", v |-> <<"4", "3", "5">>],
       [k |-> "QUAD-DRAFT", v |-> <<>>] >>

ELEMENT_ROOT == [Fire |-> 62, Earth |-> 60, Air |-> 64, Water |-> 65]

\* the quadratonic row is never consulted
SemitonePatternPentOnly(res) ==
    LET pent_pattern == DictGet(PentPatterns, res.primary_pentatonic_mode, <<>>)
    IN  IF pent_pattern # <<>> THEN pent_pattern
        ELSE <<"2", "2", "3", "2", "3">>

\* lines 30-40: the pentatonic pattern, else the quadratonic, else 2-2-3-2-3
SemitonePattern(res) ==
    LET pent_pattern == DictGet(PentPatterns, res.primary_pentatonic_mode, <<>>)
        quad_pattern == DictGet(QuadPatterns, res.primary_quadratonic_mode, <<>>)
    IN  IF pent_pattern # <<>> THEN pent_pattern
        ELSE IF quad_pattern # <<>> THEN quad_pattern
        ELSE <<"2", "2", "3", "2", "3">>

\* ELEMENT_ROOT.get(result.dominant_element, 60)
RootNote(res) ==
    IF res.dominant_element \in DOMAIN ELEMENT_ROOT
    THEN ELEMENT_ROOT[res.dominant_element] ELSE 60

\* p.strip() of a token
Strip(token) ==
    CASE token = " 4 " -> "4"
      [] token = " " -> ""
      [] OTHER -> token

\* the tokens int() accepts, with their values; int() of any other token
\* raises ValueError
IntLiterals ==
    << [k |-> "0", v |-> 0], [k |-> "2", v |-> 2], [k |-> "3", v |-> 3],
       [k |-> "4", v |-> 4], [k |-> "5", v |-> 5], [k |-> "+2", v |-> 2] >>

\* parsing ends at the first malformed token
RECURSIVE ParseUntilMalformed(_)
ParseUntilMalformed(pattern) ==
    IF pattern = <<>> THEN <<>>
    ELSE LET p == Strip(Head(pattern))
         IN  IF p = "" THEN ParseUntilMalformed(Tail(pattern))
             ELSE IF p \in DictKeys(IntLiterals)
                  THEN <<DictGet(IntLiterals, p, 0)>> \o ParseUntilMalformed(Tail(pattern))
                  ELSE <<>>

\* parse_semitone_pattern: blank tokens are dropped, tokens int() rejects
\* are skipped
RECURSIVE parse_semitone_pattern(_)
parse_semitone_pattern(pattern) ==
    IF pattern = <<>> THEN <<>>
    ELSE LET p == Strip(Head(pattern))
         IN  IF p = "" THEN parse_semitone_pattern(Tail(pattern))
             ELSE IF p \in DictKeys(IntLiterals)
                  THEN <<DictGet(IntLiterals, p, 0)>> \o parse_semitone_pattern(Tail(pattern))
                  ELSE parse_semitone_pattern(Tail(pattern))

\* lines 38-43: notes after n passes of the inner loop body, the intervals
\* taken round and round
RECURSIVE ScaleNotes(_, _, _)
ScaleNotes(root, intervals, n) ==
    IF n <= 0 THEN <<root>>
    ELSE LET notes == ScaleNotes(root, intervals, n - 1)
         IN  Append(notes, notes[n] + intervals[((n - 1) % Len(intervals)) + 1])

generate_scale_notes(root_midi, pattern, octaves) ==
    LET intervals == parse_semitone_pattern(pattern)
    IN  IF intervals = <<>> THEN <<root_midi>>
        ELSE ScaleNotes(root_midi, intervals, octaves * Len(intervals))

\* Note(midi, length_beats, velocity), the length in half beats
Note(midi, length_beats, velocity) ==
    [midi |-> midi, length_beats |-> length_beats, velocity |-> velocity]

\* the sequence n times over
RECURSIVE Repeat(_, _)
Repeat(seq, n) == IF n <= 0 THEN <<>> ELSE seq \o Repeat(seq, n - 1)

\* build_arpeggio_track(name, notes, repeats, note_length, velocity)
build_arpeggio_track(name, notes, repeats, note_length, velocity) ==
    [name |-> name,
     notes |-> Repeat([i \in 1..Len(notes) |-> Note(notes[i], note_length, velocity)], repeats)]

\* [n - 12 for n in notes[:4]] if notes else [48]
BassNotes(notes) ==
    IF notes # <<>>
    THEN [i \in 1..(IF Len(notes) < 4 THEN Len(notes) ELSE 4) |-> notes[i] - 12]
    ELSE <<48>>

\* build_bass_track(name, notes, repeats, note_length, velocity)
build_bass_track(name, notes, repeats, note_length, velocity) ==
    [name |-> name,
     notes |-> Repeat([i \in 1..Len(BassNotes(notes)) |->
                          Note(BassNotes(notes)[i], note_length, velocity)], repeats)]

\* lines 44-49: the Composition handed to export_composition
MidiOf(res) ==
    LET notes    == generate_scale_notes(RootNote(res), SemitonePattern(res), 2)
        arpeggio == build_arpeggio_track("lead", notes, 8, 1, 90)
        bass     == build_bass_track("bass", notes, 8, 4, 70)
    IN  [tracks |-> <<arpeggio, bass>>,
         tempo_bpm |-> res.sonic_payload.recommended_tempo_bpm]

\* A text is a tuple of parts: a literal piece, or an integer in decimal.
Lit(str) == [lit |-> str]

Dec(n) == [dec |-> n]

\* sep.join(texts)
RECURSIVE Join(_, _)
Join(texts, sep) ==
    IF texts = <<>> THEN <<>>
    ELSE IF Len(texts) = 1 THEN texts[1]
    ELSE texts[1] \o <<Lit(sep)>> \o Join(Tail(texts), sep)

\* MODAL_STYLES: each style as its comma-separated parts, each part as its
\* blank-separated words
MODAL_STYLES ==
    << [k |-> "PENT-ARIES-1",
        v |-> << <<"heroic", "electronic", "rock">>, <<"driving", "rhythms">>,
                 <<"bright", "brass", "accents">> >>],
       [k |-> "PENT-LEO-1",
        v |-> << <<"anthemic", "pop/indie", "with", "big", "synth", "leads", "and",
                   "warm", "pads">> >>],
       [k |-> "PENT-SAG-1",
        v |-> << <<"cinematic">>, <<"open-ambient">>,
                 <<"expansive", "pads", "and", "bells">> >>],
       [k |-> "PENT-TAURUS-1",
        v |-> << <<"downtempo", "soul">>, <<"warm", "electric", "piano">>,
                 <<"lush", "strings">> >>],
       [k |-> "PENT-VIRGO-1",
        v |-> << <<"minimal", "techno">>, <<"precise", "arpeggios">>,
                 <<"mallet", "textures">> >>],
       [k |-> "PENT-CAP-1",
        v |-> << <<"dark", "ambient">>,
                 <<"slow", "evolving", "drones", "and", "bass">> >>],
       [k |-> "PENT-GEM-1",
        v |-> << <<"jazzy", "fusion">>, <<"quick", "motifs">>,
                 <<"playful", "woodwinds">> >>],
       [k |-> "PENT-LIB-1",
        v |-> << <<"smooth", "R&B">>, <<"balanced", "harmonies">>,
                 <<"soft", "harp/pad", "textures">> >>],
       [k |-> "PENT-AQU-1",
        v |-> << <<"glitch/IDM">>,
                 <<"synthetic", "textures", "and", "modular", "sequences">> >>],
       [k |-> "PENT-CAN-1",
        v |-> << <<"lullaby-like", "ambient">>,
                 <<"soft", "piano", "and", "glassy", "pads">> >>],
       [k |-> "PENT-SCOR-1",
        v |-> << <<"noir", "electronic">>,
                 <<"deep", "sub-bass", "and", "tension", "drones">> >>],
       [k |-> "PENT-PIS-1",
        v |-> << <<"ambient", "choir">>, <<"reverb-heavy", "soundscapes">>,
                 <<"gentle", "bells">> >>] >>

\* the style as one text
StyleText(style) ==
    Join([i \in 1..Len(style) |->
             Join([j \in 1..Len(style[i]) |-> <<Lit(style[i][j])>>], " ")], ", ")

\* ELEMENT_DESCRIPTIONS; the em dash in each is written "U+2014"
ELEMENT_DESCRIPTIONS ==
    << [k |-> "Fire",
        v |-> <<Lit("bright, aggressive timbres "), Lit("U+2014"),
                Lit(" brass stabs, distorted synth leads, high-energy percussion")>>],
       [k |-> "Earth",
        v |-> <<Lit("warm, grounded timbres "), Lit("U+2014"),
                Lit(" electric piano, mellow strings, plucked bass")>>],
       [k |-> "Air",
        v |-> <<Lit("light, airy timbres "), Lit("U+2014"),
                Lit(" flutes, chimes, shimmering pads")>>],
       [k |-> "Water",
        v |-> <<Lit("soft, rounded timbres "), Lit("U+2014"),
                Lit(" warm pads, glassy bells, reverb-heavy textures")>>] >>

PLANET_INSTRUMENTS ==
    [Sun |-> <<"lead synth", "brass">>, Moon |-> <<"pad", "soft piano">>,
     Mercury |-> <<"pluck synth", "acoustic guitar">>,
     Venus |-> <<"electric piano", "warm pad">>,
     Mars |-> <<"distorted guitar", "taiko">>,
     Jupiter |-> <<"orchestral brass", "choir">>,
     Saturn |-> <<"low organ", "muted brass">>,
     Uranus |-> <<"FM synth", "glitch percussion">>,
     Neptune |-> <<"choir pad", "glass harmonics">>,
     Pluto |-> <<"sub-bass", "dark drone">>]

\* word.replace('/', '-')
SlashToDash(word) ==
    CASE word = "pop/indie" -> "pop-indie"
      [] word = "harp/pad" -> "harp-pad"
      [] word = "glitch/IDM" -> "glitch-IDM"
      [] OTHER -> word

\* lines 70-78: the tag of one part of the style, its first two words
GenreTag(tokens) ==
    IF Len(tokens) > 1
    THEN <<Lit(SlashToDash(tokens[1])), Lit(" "), Lit(SlashToDash(tokens[2]))>>
    ELSE <<Lit(SlashToDash(tokens[1]))>>

\* modal_to_genre_tags(mode_id)
modal_to_genre_tags(mode_id) ==
    LET style == DictGet(MODAL_STYLES, mode_id, <<>>)
        tags  == [i \in 1..Len(style) |-> GenreTag(style[i])]
    IN  IF style = <<>> THEN << <<Lit("ambient")>> >>
        ELSE SubSeq(tags, 1, IF Len(tags) < 3 THEN Len(tags) ELSE 3)

\* str.lower() of the element values
Lower(element) ==
    CASE element = "Fire" -> "fire"
      [] element = "Earth" -> "earth"
      [] element = "Air" -> "air"
      [] element = "Water" -> "water"
      [] element = "Unknown" -> "unknown"
      [] element = "Aether" -> "aether"
      [] OTHER -> element

\* _create_tags: the genre tags, the element in lower case, "hti-<index>"
CreateTags(res) ==
    modal_to_genre_tags(res.primary_pentatonic_mode)
    \o << <<Lit(Lower(res.dominant_element))>>,
          <<Lit("hti-"), Dec(res.harmonic_tension_index)>> >>

\* _create_title
CreateTitle(res) ==
    <<Lit(res.primary_pentatonic_mode), Lit(" - "), Lit(res.dominant_element), Lit(" piece")>>

\* the description is the modal style and nothing else
CreateDescriptionStyleOnly(res) ==
    StyleText(DictGet(MODAL_STYLES, res.primary_pentatonic_mode, <<>>))

\* _create_description
CreateDescription(res) ==
    LET modal_style  == StyleText(DictGet(MODAL_STYLES, res.primary_pentatonic_mode, <<>>))
        element_desc == DictGet(ELEMENT_DESCRIPTIONS, res.dominant_element, <<>>)
    IN  <<Lit("A ")>> \o modal_style \o <<Lit(". "), Lit("Texture: ")>> \o element_desc
        \o <<Lit(". "), Lit("Recommended tempo: "), Dec(res.sonic_payload.recommended_tempo_bpm),
             Lit(" BPM. "), Lit("Waveform character: "), Lit(res.sonic_payload.waveform),
             Lit(".")>>

\* _get_structure_description
StructureDescription(res) ==
    IF res.harmonic_tension_index < 30
    THEN <<Lit("ambient intro -> gentle theme -> ambient outro")>>
    ELSE IF res.harmonic_tension_index < 60
    THEN <<Lit("intro -> build -> motif -> bridge -> resolution")>>
    ELSE <<Lit("strong intro -> driving section -> intense climax -> release")>>

\* tension_to_dynamics
tension_to_dynamics(hti) ==
    IF hti < 20 THEN <<Lit("very soft, sparse dynamics")>>
    ELSE IF hti < 40 THEN <<Lit("soft, gentle dynamics")>>
    ELSE IF hti < 60 THEN <<Lit("moderate dynamics, steady pulse")>>
    ELSE IF hti < 80 THEN <<Lit("strong dynamics, pronounced accents")>>
    ELSE <<Lit("very strong, aggressive dynamics with heavy impact")>>

\* _create_lyrics
CreateLyrics(res) ==
    <<Lit("A "), Lit(IF res.harmonic_tension_index < 40 THEN "calm" ELSE "urgent"),
      Lit(" meditation on "), Lit(Lower(res.dominant_element)),
      Lit(", soundscapes and inner motion.")>>

\* _get_instrument_suggestions: the instruments of two planets, without
\* duplicates, six at most
InstrumentSuggestions(res) ==
    LET instruments ==
            CASE res.dominant_element = "Fire" ->
                     PLANET_INSTRUMENTS["Mars"] \o PLANET_INSTRUMENTS["Sun"]
              [] res.dominant_element = "Water" ->
                     PLANET_INSTRUMENTS["Moon"] \o PLANET_INSTRUMENTS["Neptune"]
              [] res.dominant_element = "Air" ->
                     PLANET_INSTRUMENTS["Mercury"] \o PLANET_INSTRUMENTS["Uranus"]
              [] res.dominant_element = "Earth" ->
                     PLANET_INSTRUMENTS["Venus"] \o PLANET_INSTRUMENTS["Saturn"]
              [] OTHER -> <<>>
        out == DictFromKeys(instruments)
    IN  [i \in 1..(IF Len(out) < 6 THEN Len(out) ELSE 6) |-> <<Lit(out[i])>>]

\* build_suno_prompt: one text
SunoPrompt(res) ==
    <<Lit("Title: ")>> \o CreateTitle(res)
    \o <<Lit("\nDescription: ")>> \o CreateDescription(res)
    \o <<Lit("\nStructure: ")>> \o StructureDescription(res)
    \o <<Lit("\nTags: ")>> \o Join(CreateTags(res), ", ")

\* build_stable_audio_prompt: the payload dict
StableAudioPrompt(res) ==
    [title |-> CreateTitle(res), description |-> CreateDescription(res),
     tags |-> CreateTags(res), lyrics |-> CreateLyrics(res),
     structure |-> StructureDescription(res),
     dynamics |-> tension_to_dynamics(res.harmonic_tension_index),
     instruments |-> InstrumentSuggestions(res),
     tempo_bpm |-> res.sonic_payload.recommended_tempo_bpm]

\* json.dump writes a str as a JSON string, every character outside ASCII
\* as a \u escape
JsonString(text) ==
    [i \in 1..Len(text) |-> IF text[i] = Lit("U+2014") THEN Lit("\\u2014") ELSE text[i]]

\* json.dump(payload, fh, indent=2): the members of the object in the
\* order of the dict's keys
JsonDump(obj) ==
    << [k |-> "title", v |-> JsonString(obj.title)],
       [k |-> "description", v |-> JsonString(obj.description)],
       [k |-> "tags", v |-> [i \in 1..Len(obj.tags) |-> JsonString(obj.tags[i])]],
       [k |-> "lyrics", v |-> JsonString(obj.lyrics)],
       [k |-> "structure", v |-> JsonString(obj.structure)],
       [k |-> "dynamics", v |-> JsonString(obj.dynamics)],
       [k |-> "instruments",
        v |-> [i \in 1..Len(obj.instruments) |-> JsonString(obj.instruments[i])]],
       [k |-> "tempo_bpm", v |-> obj.tempo_bpm] >>

\* generate_midi_from_result(result, out_path): the two mode files are
\* opened again, a missing one raises before anything is written
GenerateMidi ==
    /\ pc = "returned"
    /\ reads[FILE_PENT] < 2 * MaxCalls
    /\ IF FILE_PENT \notin files
       THEN UNCHANGED <<reads, outputs>>
       ELSE IF FILE_QUAD \notin files
       THEN /\ reads' = ReadFile(reads, FILE_PENT)
            /\ UNCHANGED outputs
       ELSE /\ reads' = ReadFile(ReadFile(reads, FILE_PENT), FILE_QUAD)
            /\ outputs' = DictSet(outputs, "midi", MidiOf(result))
    /\ UNCHANGED <<chart, tableVars, helperVars, pc, localVars>>

\* the list of tags is the result's timbres list, appended to in place
BuildSunoPromptInPlace ==
    /\ pc = "returned"
    /\ Len(result.sonic_payload.timbres) < 4
    /\ result' = [result EXCEPT !.sonic_payload.timbres =
                                    Append(@, Lower(result.dominant_element))]
    /\ outputs' = DictSet(outputs, "suno", SunoPrompt(result))
    /\ UNCHANGED <<chart, tableVars, helperVars, reads, pc, pent_scores, quad_scores, primary_pent,
                   primary_quad, tension, dominant_element, payload>>

\* MusicPromptBuilder(result).build_suno_prompt()
BuildSunoPrompt ==
    /\ pc = "returned"
    /\ outputs' = DictSet(outputs, "suno", SunoPrompt(result))
    /\ UNCHANGED <<chart, tableVars, helperVars, reads, pc, localVars>>

\* MusicPromptBuilder(result).build_stable_audio_prompt()
BuildStableAudioPrompt ==
    /\ pc = "returned"
    /\ outputs' = DictSet(outputs, "stable_audio", StableAudioPrompt(result))
    /\ UNCHANGED <<chart, tableVars, helperVars, reads, pc, localVars>>

\* MusicPromptBuilder(result).export_to_json(path)
ExportToJson ==
    /\ pc = "returned"
    /\ outputs' = DictSet(outputs, "json", JsonDump(StableAudioPrompt(result)))
    /\ UNCHANGED <<chart, tableVars, helperVars, reads, pc, localVars>>

NextConsumers ==
    \/ NextEngine
    \/ GenerateMidi
    \/ BuildSunoPrompt
    \/ BuildStableAudioPrompt

SpecConsumers == InitEngine /\ [][NextConsumers]_vars

(***************************************************************************)
(* Specification of the two computations that read chart.positions: a few  *)
(* sign triples, every table, positions added in any order, then one of    *)
(* the two calls.                                                          *)
(***************************************************************************)
OrderSigns == EngineSigns \cup {<<"Gemini", "C", "C">>}

InitOrder ==
    /\ chart \in {MakeChart(sg[1], sg[2], sg[3], <<>>, <<>>) : sg \in OrderSigns}
    /\ files = AllFiles
    /\ modal_csv \in ModalTables
    /\ timbres_csv = <<>>
    /\ InitLocals
    /\ InitHelpers

NextOrder ==
    \/ \E key \in PlanetKeys, pos \in PositionValues : AddPosition(key, pos)
    \/ CallAggregate
    \/ CallElement

SpecOrder == InitOrder /\ [][NextOrder]_vars

(***************************************************************************)
(* Specification of the payload builder: every tension index, element      *)
(* values inside and outside the waveform map, timbre files with empty,    *)
(* repeated and foreign rows.                                              *)
(***************************************************************************)
ElementValues == {"Fire", "Earth", "Air", "Water", "Unknown", "Aether"}

PayloadTimbreTables ==
    TimbreTables
    \cup {<< [key |-> "Water", values |-> <<"harp">>],
             [key |-> "Earth", values |-> <<"cello">>],
             [key |-> "Earth", values |-> <<>>],
             [key |-> "Unknown", values |-> <<"bells", "choir", "pad">>] >>}

\* _build_sonic_payload(dominant_element, tension) called on its own
CallPayload ==
    /\ pc = "idle"
    /\ IF LoadDataRaises(files)
       THEN /\ pc' = "raised"
            /\ UNCHANGED payload
       ELSE /\ payload' = _build_sonic_payload(dominant_element, tension,
                                               load_element_timbres(files, timbres_csv))
            /\ pc' = "built"
    /\ reads' = LoadDataReads(files, reads)
    /\ UNCHANGED <<chart, tableVars, helperVars, outputs, pent_scores, quad_scores,
                   primary_pent, primary_quad, tension, dominant_element, result>>

InitPayload ==
    /\ chart = MakeChart("Leo", "Gemini", "Aquarius", <<>>, <<>>)
    /\ files \in {AllFiles, AllFiles \ {FILE_TIMBRES}, AllFiles \ {FILE_INDEX}}
    /\ modal_csv = TableScenario
    /\ timbres_csv \in PayloadTimbreTables
    /\ pc = "idle"
    /\ pent_scores = <<>>
    /\ quad_scores = <<>>
    /\ primary_pent = ""
    /\ primary_quad = ""
    /\ tension \in 0..100
    /\ dominant_element \in ElementValues
    /\ payload = NoPayload
    /\ result = NoResult
    /\ reads = [f \in AllFiles |-> 0]
    /\ outputs = <<>>
    /\ InitHelpers

NextPayload == CallPayload

SpecPayload == InitPayload /\ [][NextPayload]_vars

(***************************************************************************)
(* Aspect finder: ephemeris_engine/aspect_finder.py.  The positions it     *)
(* reads are the raw dicts of get_planet_positions, [lon |-> degrees].     *)
(***************************************************************************)
\* (name, exact angle, orb limit), in degrees
ASPECTS ==
    << [name |-> "Conjunction", angle |-> 0,   orb |-> 8],
       [name |-> "Opposition",  angle |-> 180, orb |-> 8],
       [name |-> "Trine",       angle |-> 120, orb |-> 6],
       [name |-> "Square",      angle |-> 90,  orb |-> 6],
       [name |-> "Sextile",     angle |-> 60,  orb |-> 4] >>

Abs(x) == IF x < 0 THEN -x ELSE x

\* the difference is never folded back into 0..180
AngleDifferenceUnfolded(a, b) == (a - b) % 360

\* abs((a - b) % 360.0), folded into 0..180
angle_difference(a, b) ==
    LET diff == Abs((a - b) % 360)
    IN  IF diff > 180 THEN 360 - diff ELSE diff

\* the inner loop over ASPECTS for one pair: the first kind within its orb
PairAspects(pa, pb) ==
    LET diff == angle_difference(pa.v.lon, pb.v.lon)
        hits == {n \in 1..Len(ASPECTS) : Abs(diff - ASPECTS[n].angle) <= ASPECTS[n].orb}
    IN  IF hits = {} THEN <<>>
        ELSE LET first == CHOOSE n \in hits : \A m \in hits : n <= m
             IN  << [planet_a   |-> pa.k,
                     planet_b   |-> pb.k,
                     aspect     |-> ASPECTS[first].name,
                     angle      |-> ASPECTS[first].angle,
                     difference |-> diff,
                     orb        |-> Abs(diff - ASPECTS[first].angle)] >>

\* the two loops over names, from the pair (i, j) onwards
RECURSIVE FindAspectsFrom(_, _, _)
FindAspectsFrom(positions, i, j) ==
    IF i > Len(positions) THEN <<>>
    ELSE IF j > Len(positions) THEN FindAspectsFrom(positions, i + 1, i + 2)
    ELSE PairAspects(positions[i], positions[j]) \o FindAspectsFrom(positions, i, j + 1)

find_aspects(positions) == FindAspectsFrom(positions, 1, 2)

\* the bodies of calculator.PLANETS, in order
PLANETS == <<"Sun", "Moon", "Mercury", "Venus", "Mars", "Jupiter", "Saturn",
             "Uranus", "Neptune", "Pluto">>

\* longitudes at and around the edges of the five orbs
AspectLons == {0, 8, 9, 56, 90, 126, 127, 172, 356}

\* positions of the first n bodies
BodyPositions(n) ==
    {[i \in 1..n |-> [k |-> PLANETS[i], v |-> [lon |-> lons[i]]]] :
        lons \in [1..n -> AspectLons]}

CallFindAspects ==
    /\ pc = "idle"
    /\ ret' = find_aspects(arg)
    /\ pc' = "found"
    /\ UNCHANGED <<chart, tableVars, ascendant, arg, reads, outputs, localVars>>

InitAspects ==
    /\ chart = MakeChart("Leo", "Gemini", "Aquarius", <<>>, <<>>)
    /\ files = AllFiles
    /\ modal_csv = TableScenario
    /\ timbres_csv = <<>>
    /\ InitLocals
    /\ ascendant = 0
    /\ \E n \in 0..MaxBodies : arg \in BodyPositions(n)
    /\ ret = <<>>

NextAspects == CallFindAspects

SpecAspects == InitAspects /\ [][NextAspects]_vars

(***************************************************************************)
(* Chart builder: ephemeris_engine/calculator.py and chart_builder.py.     *)
(* The Chart under construction is held in chart: its positions are the    *)
(* raw dicts of get_planet_positions until the Chart is returned.          *)
(***************************************************************************)
SIGN_NAMES == <<"Aries", "Taurus", "Gemini", "Cancer", "Leo", "Virgo", "Libra", "Scorpio",
                "Sagittarius", "Capricorn", "Aquarius", "Pisces">>

\* angle % 360.0
normalize_angle(angle) == FloatMod360(angle)

\* the index is not reduced modulo 12
ZodiacSignNoWrap(lon) ==
    LET idx == normalize_angle(lon) \div 30
    IN  IF idx + 1 \in DOMAIN SIGN_NAMES THEN SIGN_NAMES[idx + 1] ELSE IndexError

\* SIGN_NAMES[int(normalize_angle(lon) // 30) % 12]
zodiac_sign_from_longitude(lon) ==
    LET idx == (normalize_angle(lon) \div 30) % 12
    IN  SIGN_NAMES[idx + 1]

\* What the ephemeris library does on one call: it raises, or it returns a
\* longitude.
Raises == [ok |-> FALSE, lon |-> 0]

Returns(lon) == [ok |-> TRUE, lon |-> lon]

\* outcomes of swe.calc_ut for the n-th body: two luminaries with several
\* longitudes (one of them 395, one just below 0), the others with one each
CalcOutcomes(n) ==
    CASE n = 1 -> {Raises, Returns(130), Returns(395), Returns(TinyNegative)}
      [] n = 2 -> {Raises, Returns(75), Returns(310)}
      [] OTHER -> {Raises, Returns(30 * n + 5)}

\* outcomes of swe.houses: the ascendant, which is not normalised
HousesOutcomes == {Raises, Returns(95), Returns(TinyNegative)}

\* get_planet_positions, one pass of its loop
CalcPlanet ==
    /\ pc = "get_planet_positions"
    /\ \E outcome \in CalcOutcomes(Len(chart.positions) + 1) :
         LET name == PLANETS[Len(chart.positions) + 1]
             pos  == IF outcome.ok THEN [lon |-> normalize_angle(outcome.lon)]
                                   ELSE [lon |-> 0]
         IN  chart' = [chart EXCEPT !.positions = Append(@, [k |-> name, v |-> pos])]
    /\ pc' = IF Len(chart.positions) + 1 = Len(PLANETS) THEN "houses" ELSE pc
    /\ UNCHANGED <<tableVars, helperVars, reads, outputs, localVars>>

\* lines 58-63: the ascendant, 0.0 if swe.houses fails
ComputeHouses ==
    /\ pc = "houses"
    /\ \E outcome \in HousesOutcomes :
         ascendant' = IF outcome.ok THEN outcome.lon ELSE 0
    /\ pc' = "signs"
    /\ UNCHANGED <<chart, tableVars, arg, ret, reads, outputs, localVars>>

\* positions[name]['lon'], for a name that is a key of positions
LonOf(positions, name) ==
    positions[CHOOSE i \in 1..Len(positions) : positions[i].k = name].v.lon

\* lines 65-67
ComputeSigns ==
    /\ pc = "signs"
    /\ chart' = [chart EXCEPT
                   !.sun_sign = zodiac_sign_from_longitude(LonOf(chart.positions, "Sun")),
                   !.moon_sign = zodiac_sign_from_longitude(LonOf(chart.positions, "Moon")),
                   !.rising_sign = zodiac_sign_from_longitude(ascendant)]
    /\ pc' = "find_aspects"
    /\ UNCHANGED <<tableVars, helperVars, reads, outputs, localVars>>

\* line 69
ComputeAspects ==
    /\ pc = "find_aspects"
    /\ chart' = [chart EXCEPT !.aspects = find_aspects(chart.positions)]
    /\ pc' = "return_chart"
    /\ UNCHANGED <<tableVars, helperVars, reads, outputs, localVars>>

\* {n: PlanetPosition(n, v['lon'], v['lat'], v['distance'])}
to_planetposition_dict(positions) ==
    [i \in 1..Len(positions) |-> [k |-> positions[i].k, v |-> PlanetPosition(positions[i].v.lon)]]

\* lines 71-77: the Chart goes to the caller
ReturnChart ==
    /\ pc = "return_chart"
    /\ chart' = [chart EXCEPT !.positions = to_planetposition_dict(@)]
    /\ pc' = "idle"
    /\ UNCHANGED <<tableVars, helperVars, reads, outputs, localVars>>

InitBuilder ==
    /\ chart = MakeChart("", "", "", <<>>, <<>>)
    /\ files = AllFiles
    /\ modal_csv = TableScenario
    /\ timbres_csv = <<>>
    /\ pc = "get_planet_positions"
    /\ pent_scores = <<>>
    /\ quad_scores = <<>>
    /\ primary_pent = ""
    /\ primary_quad = ""
    /\ tension = -1
    /\ dominant_element = ""
    /\ payload = NoPayload
    /\ result = NoResult
    /\ reads = [f \in AllFiles |-> 0]
    /\ outputs = <<>>
    /\ InitHelpers

NextBuilder ==
    \/ CalcPlanet
    \/ ComputeHouses
    \/ ComputeSigns
    \/ ComputeAspects
    \/ ReturnChart
    \/ CallElement

SpecBuilder == InitBuilder /\ [][NextBuilder]_vars

(***************************************************************************)
(* Specification of sign resolution: one longitude, handed to the engine's *)
(* and to the chart builder's function, in either order.                   *)
(***************************************************************************)
\* every 15 degrees from -390 to 735, the last degree of some signs, and a
\* longitude just below 0
SignLons ==
    {15 * i - 390 : i \in 0..75} \cup {-361, -1, 29, 359, 719} \cup {TinyNegative}

CallInferSign ==
    /\ pc = "idle"
    /\ "_infer_sign_from_lon" \notin DictKeys(ret)
    /\ ret' = DictSet(ret, "_infer_sign_from_lon", _infer_sign_from_lon(arg))
    /\ UNCHANGED <<chart, tableVars, ascendant, arg, reads, outputs, pc, localVars>>

CallZodiacSign ==
    /\ pc = "idle"
    /\ "zodiac_sign_from_longitude" \notin DictKeys(ret)
    /\ ret' = DictSet(ret, "zodiac_sign_from_longitude", zodiac_sign_from_longitude(arg))
    /\ UNCHANGED <<chart, tableVars, ascendant, arg, reads, outputs, pc, localVars>>

InitSigns ==
    /\ chart = MakeChart("Leo", "Gemini", "Aquarius", <<>>, <<>>)
    /\ files = AllFiles
    /\ modal_csv = TableScenario
    /\ timbres_csv = <<>>
    /\ InitLocals
    /\ ascendant = 0
    /\ arg \in SignLons
    /\ ret = <<>>

NextSigns == CallInferSign \/ CallZodiacSign

SpecSigns == InitSigns /\ [][NextSigns]_vars

(***************************************************************************)
(* Specification of the scale generator: a root, a pattern of a few        *)
(* tokens, a number of octaves, then the call.                             *)
(***************************************************************************)
\* integers, an interval of 0, a padded integer, blanks and malformed tokens
PatternTokens == {"2", "3", "0", " 4 ", "", " ", "x", "2.5"}

PatternChoices ==
    UNION {[1..n -> PatternTokens] : n \in 0..MaxTokens}

CallGenerateScaleNotes ==
    /\ pc = "idle"
    /\ ret' = generate_scale_notes(arg.root_midi, arg.pattern, arg.octaves)
    /\ pc' = "generated"
    /\ UNCHANGED <<chart, tableVars, ascendant, arg, reads, outputs, localVars>>

InitScale ==
    /\ chart = MakeChart("Leo", "Gemini", "Aquarius", <<>>, <<>>)
    /\ files = AllFiles
    /\ modal_csv = TableScenario
    /\ timbres_csv = <<>>
    /\ InitLocals
    /\ ascendant = 0
    /\ arg \in [root_midi : {60, 65}, pattern : PatternChoices, octaves : 0..MaxOctaves]
    /\ ret = <<>>

NextScale == CallGenerateScaleNotes

SpecScale == InitScale /\ [][NextScale]_vars

(***************************************************************************)
(* Specification of the MIDI generator on any result object: mode IDs with *)
(* and without a row, rows with and without a pattern, any element value.  *)
(***************************************************************************)
MidiResults ==
    {[primary_pentatonic_mode |-> pent, primary_quadratonic_mode |-> quad,
      harmonic_tension_index |-> 50, dominant_element |-> element,
      sonic_payload |-> [waveform |-> Waveform(element), recommended_tempo_bpm |-> bpm,
                         timbres |-> <<"piano", "strings">>]] :
        pent \in {"PENT-LEO-1", "PENT-AIR", "PENT-DRAFT", "UNKNOWN"},
        quad \in {"QUAD-AIR", "QUAD-DRAFT", "UNKNOWN"},
        element \in ElementValues,
        bpm \in {60, 100, 140}}

InitMidi ==
    /\ chart = MakeChart("Leo", "Gemini", "Aquarius", <<>>, <<>>)
    /\ files \in {AllFiles, AllFiles \ {FILE_PENT}, AllFiles \ {FILE_QUAD}}
    /\ modal_csv = TableScenario
    /\ timbres_csv = <<>>
    /\ pc = "returned"
    /\ pent_scores = <<>>
    /\ quad_scores = <<>>
    /\ primary_pent = ""
    /\ primary_quad = ""
    /\ tension = -1
    /\ dominant_element = ""
    /\ payload = NoPayload
    /\ result \in MidiResults
    /\ reads = [f \in AllFiles |-> 0]
    /\ outputs = <<>>
    /\ InitHelpers

NextMidi == GenerateMidi

SpecMidi == InitMidi /\ [][NextMidi]_vars

(***************************************************************************)
(* Specification of the prompt builder on any result object: every key of  *)
(* MODAL_STYLES and two IDs outside it, any element value, tension indexes *)
(* on both sides of every threshold.                                       *)
(***************************************************************************)
PromptResults ==
    {[primary_pentatonic_mode |-> pent, primary_quadratonic_mode |-> "UNKNOWN",
      harmonic_tension_index |-> hti, dominant_element |-> element,
      sonic_payload |-> [waveform |-> Waveform(element), recommended_tempo_bpm |-> Tempo(hti),
                         timbres |-> <<"piano", "strings">>]] :
        pent \in DictKeys(MODAL_STYLES) \cup {"UNKNOWN", "PENT-TEST-1"},
        element \in ElementValues,
        hti \in {0, 19, 20, 29, 30, 39, 40, 59, 60, 79, 80, 100}}

InitPrompts ==
    /\ chart = MakeChart("Leo", "Gemini", "Aquarius", <<>>, <<>>)
    /\ files = AllFiles
    /\ modal_csv = TableScenario
    /\ timbres_csv = <<>>
    /\ pc = "returned"
    /\ pent_scores = <<>>
    /\ quad_scores = <<>>
    /\ primary_pent = ""
    /\ primary_quad = ""
    /\ tension = -1
    /\ dominant_element = ""
    /\ payload = NoPayload
    /\ result \in PromptResults
    /\ reads = [f \in AllFiles |-> 0]
    /\ outputs = <<>>
    /\ InitHelpers

NextPrompts ==
    \/ BuildSunoPrompt
    \/ BuildStableAudioPrompt
    \/ ExportToJson

SpecPrompts == InitPrompts /\ [][NextPrompts]_vars

(***************************************************************************)
(* Properties of the tension scorer (SpecTension).                         *)
(***************************************************************************)
\* C1: for every aspect list (any kinds, any orbs) _compute_harmonic_tension
\* returns an integer between 0 and 100, and 0 for the empty list.
TensionBounds ==
    pc = "scored" =>
        /\ tension \in 0..100
        /\ (chart.aspects = <<>> => tension = 0)

\* a list whose total exceeds 40.0 has been scored and is reported as 100
TensionBoundsWitness ==
    /\ pc = "scored"
    /\ Len(chart.aspects) >= 7
    /\ tension = 100

\* the weights and closeness as the specification states them
RefAspectWeight(kind) ==
    CASE kind = "Conjunction" -> 2
      [] kind = "Opposition" -> 6
      [] kind = "Trine" -> 3
      [] kind = "Square" -> 5
      [] kind = "Sextile" -> 2
      [] OTHER -> 2

RefCloseness(a) ==
    LET orb == IF a.has_orb THEN a.orb ELSE 0
    IN  IF orb >= 4 THEN 0 ELSE 4 - orb

RECURSIVE RefTotal(_)
RefTotal(aspects) ==
    IF aspects = <<>> THEN 0
    ELSE RefAspectWeight(Head(aspects).aspect) * (4 + RefCloseness(Head(aspects)))
         + RefTotal(Tail(aspects))

RefIndex(aspects) ==
    LET scaled == (RefTotal(aspects) * 100) \div (40 * 8)
    IN  IF scaled > 100 THEN 100 ELSE scaled

Luminaries == {"Sun", "Moon", "Rising"}

RefContributors == Luminaries \cup DictKeys(chart.positions)

RefPosition(p) == chart.positions[CHOOSE i \in 1..Len(chart.positions) : chart.positions[i].k = p].v

\* a planet of chart.positions whose value is None has no sign
RefHasSign(p) == p \in Luminaries \/ RefPosition(p).tag # "None"

RefSign(p) ==
    CASE p = "Sun" -> chart.sun_sign
      [] p = "Moon" -> chart.moon_sign
      [] p = "Rising" -> chart.rising_sign
      [] OTHER -> LET lon == IF RefPosition(p).tag = "PlanetPosition"
                             THEN RefPosition(p).lon ELSE 0
                  IN  SIGNS[((lon % 360) \div 30) + 1]

RefWeight(p) ==
    CASE p = "Sun" -> 6
      [] p = "Moon" -> 5
      [] p = "Rising" -> 4
      [] OTHER -> 2

RefHasRow(sign) == sign # "" /\ \E i \in 1..Len(modal_csv) : modal_csv[i].sign = sign

RefRow(sign) == modal_csv[CHOOSE i \in 1..Len(modal_csv) : modal_csv[i].sign = sign]

\* the mode ID a contributor votes for in a family, "" when it casts no vote
RefModeOf(p, family) ==
    IF ~ RefHasSign(p) \/ ~ RefHasRow(RefSign(p)) THEN ""
    ELSE IF family = "pent"
         THEN (IF RefRow(RefSign(p)).pentatonic_mode_id # ""
               THEN RefRow(RefSign(p)).pentatonic_mode_id
               ELSE RefRow(RefSign(p)).pentatonic_mode)
         ELSE (IF RefRow(RefSign(p)).quadratonic_mode_id # ""
               THEN RefRow(RefSign(p)).quadratonic_mode_id
               ELSE RefRow(RefSign(p)).quadratonic_mode)

RECURSIVE RefWeightSum(_)
RefWeightSum(ps) ==
    IF ps = {} THEN 0
    ELSE LET p == CHOOSE x \in ps : TRUE
         IN  RefWeight(p) + RefWeightSum(ps \ {p})

RefModes(family) == {RefModeOf(p, family) : p \in RefContributors} \ {""}

RefScore(mode, family) ==
    RefWeightSum({p \in RefContributors : RefModeOf(p, family) = mode})

RefIsMaximal(mode, family) ==
    /\ mode \in RefModes(family)
    /\ \A other \in RefModes(family) : RefScore(other, family) <= RefScore(mode, family)

ScoresMatchReference(scores, family) ==
    /\ DictKeys(scores) = RefModes(family)
    /\ \A i \in 1..Len(scores) : scores[i].v = RefScore(scores[i].k, family)

\* C3: the returned pentatonic (quadratonic) mode ID has a maximal accumulated
\* score, each contributor adding its weight (Sun 3.0, Moon 2.5, Rising 2.0,
\* others 1.0) to the mode ID of its sign's row, summed per mode ID; with no
\* positions and three different mode IDs the Sun's mode wins.
WinnerHasMaximalScore ==
    pc = "aggregated" =>
        /\ ScoresMatchReference(pent_scores, "pent")
        /\ ScoresMatchReference(quad_scores, "quad")
        /\ (RefModes("pent") # {} => RefIsMaximal(primary_pent, "pent"))
        /\ (RefModes("quad") # {} => RefIsMaximal(primary_quad, "quad"))
        /\ (chart.positions = <<>> /\ Cardinality(RefModes("pent")) = 3
                => primary_pent = RefModeOf("Sun", "pent"))
        /\ (chart.positions = <<>> /\ Cardinality(RefModes("quad")) = 3
                => primary_quad = RefModeOf("Sun", "quad"))

\* two signs of the chart feed one mode ID, which beats the Sun's mode
WinnerHasMaximalScoreWitness ==
    /\ pc = "aggregated"
    /\ modal_csv = TableShared
    /\ chart.sun_sign = "Leo"
    /\ chart.moon_sign = "Gemini"
    /\ chart.rising_sign = "Aquarius"
    /\ primary_pent = "PENT-AIR"
    /\ DictGet(pent_scores, "PENT-AIR", 0) = 9 + 2 * Len(chart.positions)
    /\ Len(chart.positions) = 2

\* the chart without the entries of chart.positions keyed by a luminary
WithoutLuminaryPositions(c) ==
    [c EXCEPT !.positions = SelectSeq(c.positions, LAMBDA e : e.k \notin Luminaries)]

\* the sum of the values of a score table
RECURSIVE DictTotalTo(_, _)
DictTotalTo(d, n) == IF n = 0 THEN 0 ELSE DictTotalTo(d, n - 1) + d[n].v

DictTotal(d) == DictTotalTo(d, Len(d))

\* C4: every contributor votes exactly once; with 'Sun' or 'Moon' among the
\* keys of chart.positions, Sun and Moon still add their weight once, for
\* chart.sun_sign / chart.moon_sign and not for the sign of the position entry.
EveryContributorVotesOnce ==
    pc = "aggregated" =>
        /\ DictTotal(pent_scores)
             = RefWeightSum({p \in RefContributors : RefModeOf(p, "pent") # ""})
        /\ DictTotal(quad_scores)
             = RefWeightSum({p \in RefContributors : RefModeOf(p, "quad") # ""})
        /\ LET modal_index == load_modal_families_index(modal_csv)
               plain       == AggregateScores(WithoutLuminaryPositions(chart), modal_index)
           IN  /\ pent_scores = plain.pent
               /\ quad_scores = plain.quad

\* 'Sun' is a key of chart.positions, its entry lies in another sign than
\* chart.sun_sign, and the Sun's 3.0 went to the mode of chart.sun_sign
EveryContributorVotesOnceWitness ==
    /\ pc = "aggregated"
    /\ modal_csv = TableScenario
    /\ chart.sun_sign = "Leo"
    /\ chart.moon_sign = "C"
    /\ chart.rising_sign = "C"
    /\ chart.positions = <<[k |-> "Sun", v |-> PlanetPosition(310)]>>
    /\ pent_scores = <<[k |-> "PENT-LEO-1", v |-> 6]>>

\* contributor iteration order: Sun, Moon, Rising, then the other keys of
\* chart.positions in their order
RefOrder == <<"Sun", "Moon", "Rising">>
            \o SelectSeq(PositionKeys(chart), LAMBDA key : key \notin Luminaries)

RefFirstVote(mode, family) ==
    CHOOSE i \in 1..Len(RefOrder) :
        /\ RefModeOf(RefOrder[i], family) = mode
        /\ \A j \in 1..(i - 1) : RefModeOf(RefOrder[j], family) # mode

RefTied(family) == {m \in RefModes(family) : RefIsMaximal(m, family)}

RefTieWinner(winner, family) ==
    /\ winner \in RefTied(family)
    /\ \A m \in RefTied(family) : RefFirstVote(winner, family) <= RefFirstVote(m, family)

\* C5: among mode IDs sharing the maximum score the returned one is the one
\* whose first contribution came earliest in contributor iteration order;
\* the same for the quadratonic family.
TieGoesToFirstContribution ==
    pc = "aggregated" =>
        /\ (RefModes("pent") # {} => RefTieWinner(primary_pent, "pent"))
        /\ (RefModes("quad") # {} => RefTieWinner(primary_quad, "quad"))

\* Rising (2.0) is tied with two planets (1.0 each) of one other mode
TieGoesToFirstContributionWitness ==
    /\ pc = "aggregated"
    /\ Cardinality(RefTied("pent")) = 2
    /\ Len(pent_scores) = 2
    /\ pent_scores[1].v = 4
    /\ primary_pent = pent_scores[1].k

\* the scores of the loop run over the contributors other than p
ScoresWithout(p) ==
    LET others == SelectSeq(Contributors(chart), LAMBDA q : q # p)
    IN  AggregateLoop(chart, load_modal_families_index(modal_csv), others, Len(others))

\* p adds nothing: the scores are those of the other contributors alone
CastsNoVote(p) ==
    /\ pent_scores = ScoresWithout(p).pent
    /\ quad_scores = ScoresWithout(p).quad

\* the value of chart.positions for p is None
RefPositionIsNone(p) == p \in DictKeys(chart.positions) /\ RefPosition(p).tag = "None"

\* C7 as stated: a contributor whose sign has no row in the modal-family
\* table, or whose position value is None, raises nothing and adds nothing to
\* any score: the scores are those the other contributors produce without it.
MissingRowOrPositionCastsNoVote ==
    /\ pc # "raised"
    /\ pc = "aggregated" =>
           \A p \in RefContributors :
               (RefPositionIsNone(p) \/ (RefHasSign(p) /\ ~ RefHasRow(RefSign(p))))
                   => CastsNoVote(p)

\* C7 amended: a contributor whose sign has no row in the modal-family table,
\* or a contributor other than Sun, Moon and Rising whose position value is
\* None, raises nothing and adds nothing to any score; Sun, Moon and Rising
\* vote for the chart's sign fields whatever their entry in chart.positions.
SilentContributorCastsNoVote ==
    /\ pc # "raised"
    /\ pc = "aggregated" =>
           \A p \in RefContributors :
               /\ ((p \notin Luminaries /\ RefPositionIsNone(p))
                     \/ (RefHasSign(p) /\ ~ RefHasRow(RefSign(p))))
                       => CastsNoVote(p)
               /\ (p \in Luminaries /\ RefPositionIsNone(p))
                       => \A family \in {"pent", "quad"} :
                              RefModeOf(p, family) # ""
                                  => DictGet(IF family = "pent" THEN pent_scores
                                             ELSE quad_scores,
                                             RefModeOf(p, family), 0) >= RefWeight(p)

\* a planet with a None position and a luminary without a row sit in a
\* chart whose other contributors have scored
SilentContributorCastsNoVoteWitness ==
    /\ pc = "aggregated"
    /\ \E p \in DictKeys(chart.positions) \ Luminaries : RefPosition(p).tag = "None"
    /\ \E p \in Luminaries : ~ RefHasRow(RefSign(p))
    /\ modal_csv = TableShared
    /\ Len(pent_scores) = 2

\* the chart after chart.positions[key] = pos for a key not yet present
WithPosition(c, key, pos) ==
    [c EXCEPT !.positions = Append(@, [k |-> key, v |-> pos])]

\* the mode ID of the family that the sign of a position value maps to
ModeOfPosition(pos, family) ==
    LET row == DictGet(load_modal_families_index(modal_csv),
                       _infer_sign_from_lon(GetLon(pos)), EmptyFamily)
    IN  IF family = "pent" THEN PentId(row) ELSE QuadId(row)

\* adding the planet key at the winner of the family raises the winner's
\* score and keeps the winner
AddingKeepsWinner(key, pos, family) ==
    LET modal_index == load_modal_families_index(modal_csv)
        winner      == IF family = "pent" THEN primary_pent ELSE primary_quad
        before      == IF family = "pent" THEN pent_scores ELSE quad_scores
        grown       == AggregateScores(WithPosition(chart, key, pos), modal_index)
        after       == IF family = "pent" THEN grown.pent ELSE grown.quad
    IN  (pos.tag # "None" /\ winner # "UNKNOWN" /\ ModeOfPosition(pos, family) = winner)
            => /\ DictGet(after, winner, 0) > DictGet(before, winner, 0)
               /\ PrimaryMode(after) = winner

\* C8 as stated: if M is the winner, adding one more planet (any key not yet
\* in chart.positions) whose sign maps to M strictly increases M's score and
\* leaves M the winner.
AddedPlanetRaisesWinner ==
    pc = "aggregated" =>
        \A key \in PlanetKeys \ DictKeys(chart.positions), pos \in PositionValues :
            AddingKeepsWinner(key, pos, "pent") /\ AddingKeepsWinner(key, pos, "quad")

\* C8 amended: the same for a planet other than Sun, Moon and Rising, which
\* are contributors already and vote from the chart's sign fields.
AddedContributorRaisesWinner ==
    pc = "aggregated" =>
        \A key \in (PlanetKeys \ Luminaries) \ DictKeys(chart.positions),
           pos \in PositionValues :
            AddingKeepsWinner(key, pos, "pent") /\ AddingKeepsWinner(key, pos, "quad")

\* the winner only leads through the tie-break, and a planet that can be
\* added maps to it
AddedContributorRaisesWinnerWitness ==
    /\ pc = "aggregated"
    /\ Cardinality(RefTied("pent")) = 2
    /\ primary_pent # "UNKNOWN"
    /\ "Venus" \notin DictKeys(chart.positions)
    /\ \E pos \in PositionValues :
           pos.tag # "None" /\ ModeOfPosition(pos, "pent") = primary_pent

(***************************************************************************)
(* Properties of the element resolver (SpecElement).                       *)
(***************************************************************************)
RefElement(sign) ==
    CASE sign \in {"Aries", "Leo", "Sagittarius"} -> "Fire"
      [] sign \in {"Taurus", "Virgo", "Capricorn"} -> "Earth"
      [] sign \in {"Gemini", "Libra", "Aquarius"} -> "Air"
      [] sign \in {"Cancer", "Scorpio", "Pisces"} -> "Water"
      [] OTHER -> "Unknown"

\* the tally in order: sun_sign, moon_sign, rising_sign, then one sign per
\* entry of chart.positions (a value without longitude reads as 0.0)
RefTally ==
    <<chart.sun_sign, chart.moon_sign, chart.rising_sign>>
    \o [i \in 1..Len(chart.positions) |->
          LET pos == chart.positions[i].v
              lon == IF pos.tag = "PlanetPosition" THEN pos.lon ELSE 0
          IN  SIGNS[((lon % 360) \div 30) + 1]]

RefElementCount(e) == Cardinality({i \in 1..Len(RefTally) : RefElement(RefTally[i]) = e})

RefElementFirst(e) ==
    CHOOSE i \in 1..Len(RefTally) :
        /\ RefElement(RefTally[i]) = e
        /\ \A j \in 1..(i - 1) : RefElement(RefTally[j]) # e

RefTalliedElements == {RefElement(RefTally[i]) : i \in 1..Len(RefTally)}

RefLeadingElements ==
    {e \in RefTalliedElements :
        \A other \in RefTalliedElements : RefElementCount(other) <= RefElementCount(e)}

\* C9: the dominant element has the highest total count over sun_sign,
\* moon_sign, rising_sign and one count per entry of chart.positions; among
\* elements with equal highest total the first encountered in tally order
\* wins; Leo/Gemini/Aquarius without positions gives Air.
DominantElementIsFirstHighest ==
    pc = "resolved" =>
        /\ dominant_element \in RefLeadingElements
        /\ \A e \in RefLeadingElements :
               RefElementFirst(dominant_element) <= RefElementFirst(e)
        /\ (chart = MakeChart("Leo", "Gemini", "Aquarius", <<>>, <<>>)
               => dominant_element = "Air")

\* positions overturn the luminaries: Fire first in the tally, Air dominant
DominantElementIsFirstHighestWitness ==
    /\ pc = "resolved"
    /\ chart.sun_sign = "Leo"
    /\ chart.moon_sign = "Leo"
    /\ chart.rising_sign = "Gemini"
    /\ Len(chart.positions) = 2
    /\ RefElementCount("Air") = 3
    /\ dominant_element = "Air"

Elements == {"Fire", "Earth", "Air", "Water"}

\* C10 as stated: the result is one of Fire, Earth, Air, Water, Unknown and,
\* the sign-element table covering all 12 signs, is never Unknown when any
\* sign is tallied.
NeverUnknownWhenTallied ==
    pc = "resolved" =>
        /\ dominant_element \in Elements \cup {"Unknown"}
        /\ (DOMAIN ELEMENT_BY_SIGN = Range(SIGNS) /\ Len(RefTally) > 0
               => dominant_element # "Unknown")

\* C10 amended: the result is one of Fire, Earth, Air, Water, Unknown and,
\* the sign-element table covering all 12 signs, is never Unknown when
\* sun_sign, moon_sign and rising_sign are among the 12 canonical signs.
NeverUnknownWhenCanonical ==
    pc = "resolved" =>
        /\ dominant_element \in Elements \cup {"Unknown"}
        /\ (/\ DOMAIN ELEMENT_BY_SIGN = Range(SIGNS)
            /\ {chart.sun_sign, chart.moon_sign, chart.rising_sign} \subseteq Range(SIGNS)
               => dominant_element # "Unknown")

\* canonical signs and positions have been resolved to an element
NeverUnknownWhenCanonicalWitness ==
    /\ pc = "resolved"
    /\ {chart.sun_sign, chart.moon_sign, chart.rising_sign} \subseteq Range(SIGNS)
    /\ Len(chart.positions) = 2
    /\ dominant_element \in Elements

(***************************************************************************)
(* Properties of run_harmonic_engine (SpecEngine).                         *)
(***************************************************************************)
RefNoContributorHasRow ==
    \A p \in RefContributors : ~ (RefHasSign(p) /\ RefHasRow(RefSign(p)))

\* C6: with an empty modal-family table, or no contributor's sign in it, the
\* aggregator returns ('UNKNOWN', 'UNKNOWN') whatever the chart holds, and
\* run_harmonic_engine does not fail on it but returns a HarmonicResult with
\* those sentinels.
SentinelWhenNoRow ==
    RefNoContributorHasRow =>
        /\ pc \in {"run_tension", "run_element", "run_payload", "run_return", "returned"}
              => primary_pent = "UNKNOWN" /\ primary_quad = "UNKNOWN"
        /\ pc = "raised" => LoadDataRaises(files)
        /\ pc = "returned"
              => /\ result.primary_pentatonic_mode = "UNKNOWN"
                 /\ result.primary_quadratonic_mode = "UNKNOWN"
                 /\ result.harmonic_tension_index \in 0..100
                 /\ result.dominant_element # ""
                 /\ result.sonic_payload # NoPayload

\* a chart with positions and aspects, none of whose signs is in the
\* non-empty table, has been returned
SentinelWhenNoRowWitness ==
    /\ pc = "returned"
    /\ modal_csv # <<>>
    /\ RefNoContributorHasRow
    /\ chart.positions # <<>>
    /\ chart.aspects # <<>>
    /\ result.primary_pentatonic_mode = "UNKNOWN"
    /\ result.primary_quadratonic_mode = "UNKNOWN"

(***************************************************************************)
(* Properties of the payload builder (SpecPayload).                        *)
(***************************************************************************)
\* C11: for every tension index t in 0..100 the payload's tempo is
\* 60 + floor(t*80/100): between 60 and 140, 60 at 0 and 140 at 100,
\* non-decreasing in t, and the same for every dominant element.
TempoIsLinearInTension ==
    pc = "built" =>
        LET bpm == payload.recommended_tempo_bpm
        IN  /\ bpm \in 60..140
            /\ 100 * (bpm - 60) <= 80 * tension
            /\ 80 * tension < 100 * (bpm - 60 + 1)
            /\ (tension = 0 => bpm = 60)
            /\ (tension = 100 => bpm = 140)
            /\ \A t \in 0..100, e \in ElementValues :
                   LET other == _build_sonic_payload(e, t, <<>>).recommended_tempo_bpm
                   IN  /\ (t <= tension => other <= bpm)
                       /\ (t = tension => other = bpm)

\* a tension whose exact tempo 60 + 0.8 t has a fraction above one half
TempoIsLinearInTensionWitness ==
    /\ pc = "built"
    /\ tension = 62
    /\ dominant_element = "Water"
    /\ payload.recommended_tempo_bpm = 109

\* C12: the waveform is sine for Water, sawtooth for Fire, triangle for Air,
\* square for Earth and sine for every other element value.
WaveformByElement ==
    pc = "built" =>
        payload.waveform =
            CASE dominant_element = "Water" -> "sine"
              [] dominant_element = "Fire" -> "sawtooth"
              [] dominant_element = "Air" -> "triangle"
              [] dominant_element = "Earth" -> "square"
              [] OTHER -> "sine"

\* an element value outside the map has got the default
WaveformByElementWitness ==
    /\ pc = "built"
    /\ dominant_element = "Unknown"
    /\ payload.waveform = "sine"

\* the timbre file's last row for an element, <<>> without file or row
RefHasEntry(element) ==
    /\ FILE_TIMBRES \in files
    /\ \E i \in 1..Len(timbres_csv) : timbres_csv[i].key = element

RefEntry(element) ==
    LET last == CHOOSE i \in 1..Len(timbres_csv) :
                    /\ timbres_csv[i].key = element
                    /\ \A j \in (i + 1)..Len(timbres_csv) : timbres_csv[j].key # element
    IN  timbres_csv[last].values

\* C13: the timbres are the timbre table's entry for the dominant element
\* when it exists and is not empty, else [piano, strings] for Water and Air
\* and [guitar, organ] for every other value; the list is never empty.
TimbresFromTableOrFallback ==
    pc = "built" =>
        /\ payload.timbres # <<>>
        /\ payload.timbres =
              IF RefHasEntry(dominant_element) /\ RefEntry(dominant_element) # <<>>
              THEN RefEntry(dominant_element)
              ELSE IF dominant_element \in {"Water", "Air"}
                   THEN <<"piano", "strings">>
                   ELSE <<"guitar", "organ">>

\* the element's last row in the file is empty and the fallback is used
TimbresFromTableOrFallbackWitness ==
    /\ pc = "built"
    /\ dominant_element = "Earth"
    /\ RefHasEntry("Earth")
    /\ RefEntry("Earth") = <<>>
    /\ payload.timbres = <<"guitar", "organ">>

(***************************************************************************)
(* Properties of the table files (SpecEngine).                             *)
(***************************************************************************)
\* C14 as stated: whichever of the four table files is missing,
\* run_harmonic_engine does not return a HarmonicResult.
AnyMissingFileIsFatal ==
    files # AllFiles => pc # "returned" /\ result = NoResult

\* C14: when the modal families index, the pentatonic modes or the
\* quadratonic modes file is missing, run_harmonic_engine raises in its
\* first step, computes nothing and returns no HarmonicResult; a missing
\* element timbres file alone never makes it raise.
MissingModeFileIsFatal ==
    /\ (\E f \in {FILE_INDEX, FILE_PENT, FILE_QUAD} : f \notin files) =>
          /\ pc \in {"idle", "raised"}
          /\ primary_pent = "" /\ primary_quad = "" /\ tension = -1
          /\ dominant_element = "" /\ payload = NoPayload
          /\ result = NoResult
    /\ ({FILE_INDEX, FILE_PENT, FILE_QUAD} \subseteq files => pc # "raised")

\* the run has raised for want of the quadratonic file
MissingModeFileIsFatalWitness ==
    /\ pc = "raised"
    /\ files = AllFiles \ {FILE_QUAD}
    /\ result = NoResult

\* C15: within one run_harmonic_engine call each table file is opened at
\* most once, so that the aggregator's modal-family table and the payload
\* builder's timbre table come from one load.
TablesLoadedOncePerRun ==
    \A f \in AllFiles : reads[f] <= 1

(***************************************************************************)
(* Properties of the order of chart.positions (SpecOrder).                 *)
(***************************************************************************)
\* the same entries in every order
Orderings(seq) ==
    LET n == Len(seq)
    IN  {[i \in 1..n |-> seq[f[i]]] :
            f \in {g \in [1..n -> 1..n] : \A i, j \in 1..n : g[i] = g[j] => i = j}}

PermutedCharts == {[chart EXCEPT !.positions = q] : q \in Orderings(chart.positions)}

\* one key only has the highest value
UniqueMax(scores) ==
    \A i, j \in 1..Len(scores) :
        (\A k \in 1..Len(scores) : scores[k].v <= scores[i].v /\ scores[k].v <= scores[j].v)
            => i = j

ElementTally(c) == ElementCounts(SignCounts(c), Len(SignCounts(c)))

\* C16 as stated: charts that differ only in the order of chart.positions
\* get the same mode IDs and the same dominant element.
OrderOfPositionsIrrelevant ==
    /\ pc = "aggregated" =>
          \A c \in PermutedCharts :
              _aggregate_canonical_modes(c, load_modal_families_index(modal_csv))
                  = [pent |-> primary_pent, quad |-> primary_quad]
    /\ pc = "resolved" =>
          \A c \in PermutedCharts : _determine_dominant_element(c) = dominant_element

\* C16: charts that differ only in the order of chart.positions get the
\* same score for every mode ID and the same count for every element, and
\* the same mode IDs and dominant element whenever one mode ID (element)
\* alone has the highest score (count); only a tie is decided by the order.
OrderOfPositionsDecidesTiesOnly ==
    /\ pc = "aggregated" =>
          \A c \in PermutedCharts :
              LET scores == AggregateScores(c, load_modal_families_index(modal_csv))
              IN  /\ Range(scores.pent) = Range(pent_scores)
                  /\ Range(scores.quad) = Range(quad_scores)
                  /\ (UniqueMax(pent_scores) => PrimaryMode(scores.pent) = primary_pent)
                  /\ (UniqueMax(quad_scores) => PrimaryMode(scores.quad) = primary_quad)
    /\ pc = "resolved" =>
          \A c \in PermutedCharts :
              /\ Range(ElementTally(c)) = Range(ElementTally(chart))
              /\ (UniqueMax(ElementTally(chart))
                    => _determine_dominant_element(c) = dominant_element)

\* two planets vote for two modes no luminary votes for, in the other order
\* the score table is filled in another order, and the Sun's mode wins alone
OrderOfPositionsDecidesTiesOnlyWitness ==
    /\ pc = "aggregated"
    /\ Len(chart.positions) = 2
    /\ Len(pent_scores) = 3
    /\ UniqueMax(pent_scores)
    /\ \E c \in PermutedCharts :
          AggregateScores(c, load_modal_families_index(modal_csv)).pent # pent_scores

ComputationsDoNotInterfere ==
    /\ primary_pent # "" =>
          \A as \in EngineAspects :
              _aggregate_canonical_modes([chart EXCEPT !.aspects = as],
                                         load_modal_families_index(modal_csv))
                  = [pent |-> primary_pent, quad |-> primary_quad]
    /\ tension # -1 =>
          \A sg \in EngineSigns, ps \in EnginePositions :
              /\ _compute_harmonic_tension(MakeChart(sg[1], sg[2], sg[3], ps, chart.aspects))
                     = tension
              /\ tension = RefIndex(chart.aspects)
    /\ dominant_element # "" =>
          \A as \in EngineAspects :
              /\ _determine_dominant_element([chart EXCEPT !.aspects = as])
                     = dominant_element
              /\ dominant_element \in RefLeadingElements

\* a run over a chart that has aspects and no positions has returned a
\* tension index above 0 and mode IDs from the table
ComputationsDoNotInterfereWitness ==
    /\ pc = "returned"
    /\ chart.aspects # <<>>
    /\ chart.positions = <<>>
    /\ result.harmonic_tension_index > 0
    /\ result.primary_pentatonic_mode # "UNKNOWN"
    /\ result.dominant_element = "Air"

\* C19: run_harmonic_engine aggregates the modes, then scores the tension,
\* then resolves the element, then builds the payload, and constructs the
\* HarmonicResult last, from the four values; when the payload builder is
\* invoked the tension index and the dominant element are there, and the
\* payload is built from them.
StepsInFixedOrder ==
    LET modes_done   == primary_pent # "" /\ primary_quad # ""
        tension_done == tension # -1
        element_done == dominant_element # ""
        payload_done == payload # NoPayload
        result_done  == result # NoResult
    IN  /\ pc = "idle" =>
              ~ modes_done /\ ~ tension_done /\ ~ element_done /\ ~ payload_done
              /\ ~ result_done
        /\ pc = "run_tension" =>
              modes_done /\ ~ tension_done /\ ~ element_done /\ ~ payload_done
              /\ ~ result_done
        /\ pc = "run_element" =>
              modes_done /\ tension_done /\ ~ element_done /\ ~ payload_done
              /\ ~ result_done
        /\ pc = "run_payload" =>
              modes_done /\ tension_done /\ element_done /\ ~ payload_done
              /\ ~ result_done
        /\ pc = "run_return" =>
              modes_done /\ tension_done /\ element_done /\ payload_done /\ ~ result_done
        /\ payload_done =>
              /\ payload.waveform = Waveform(dominant_element)
              /\ payload.recommended_tempo_bpm = Tempo(tension)
        /\ result_done =>
              /\ pc = "returned"
              /\ result = [primary_pentatonic_mode |-> primary_pent,
                           primary_quadratonic_mode |-> primary_quad,
                           harmonic_tension_index |-> tension,
                           dominant_element |-> dominant_element,
                           sonic_payload |-> payload]
              /\ modes_done /\ tension_done /\ element_done /\ payload_done

\* the payload builder is about to be invoked with both of its arguments
StepsInFixedOrderWitness ==
    /\ pc = "run_payload"
    /\ tension = 15
    /\ dominant_element = "Air"
    /\ payload = NoPayload

(***************************************************************************)
(* Properties of the consumers (SpecConsumers).                            *)
(***************************************************************************)
\* C20: no step of run_harmonic_engine and no consumer call changes the
\* chart (signs, positions, aspects), and once the HarmonicResult is
\* constructed no consumer call changes any of its fields, the timbres of
\* its sonic_payload included.
InputsLeftUnchanged ==
    [][/\ chart' = chart
       /\ (result # NoResult => result' = result)]_vars

\* the three consumers have each produced their output from the result
InputsLeftUnchangedWitness ==
    /\ pc = "returned"
    /\ DictKeys(outputs) = {"midi", "suno", "stable_audio"}
    /\ chart.positions # <<>>
    /\ result.sonic_payload.timbres = <<"brass", "drums">>
    /\ DictGet(outputs, "midi", <<>>).tempo_bpm = result.sonic_payload.recommended_tempo_bpm

(***************************************************************************)
(* Properties of the aspect finder (SpecAspects).                          *)
(***************************************************************************)
\* the separation of two longitudes on the circle: the least d with
\* a = b + d or a = b - d, modulo 360
RefSeparation(a, b) ==
    CHOOSE d \in 0..180 :
        /\ (a - b - d) % 360 = 0 \/ (a - b + d) % 360 = 0
        /\ \A e \in 0..(d - 1) : (a - b - e) % 360 # 0 /\ (a - b + e) % 360 # 0

\* the kinds whose exact angle is within their orb of the separation d
RefKindsWithin(d) ==
    {n \in 1..5 :
        LET exact == <<0, 180, 120, 90, 60>>[n]
            limit == <<8, 8, 6, 6, 4>>[n]
        IN  d - exact <= limit /\ exact - d <= limit}

RefKindName(n) == <<"Conjunction", "Opposition", "Trine", "Square", "Sextile">>[n]

\* the entries of the result for the pair of the i-th and j-th body
RefEntriesOf(i, j) ==
    {n \in 1..Len(ret) : ret[n].planet_a = arg[i].k /\ ret[n].planet_b = arg[j].k}

\* C21: find_aspects returns at most one aspect for each unordered pair of
\* planets: the first kind, in the order Conjunction, Opposition, Trine,
\* Square, Sextile, whose exact angle is within its orb of the pair's
\* angular difference, with orb = |difference - exact angle| between 0 and
\* the kind's limit; a pair that no kind matches has no entry, and the
\* result has at most n(n-1)/2 entries.
OneAspectPerPair ==
    pc = "found" =>
        /\ \A i \in 1..Len(arg) : \A j \in 1..Len(arg) :
              LET d     == RefSeparation(arg[i].v.lon, arg[j].v.lon)
                  kinds == RefKindsWithin(d)
                  found == RefEntriesOf(i, j)
              IN  IF i < j /\ kinds # {}
                  THEN /\ Cardinality(found) = 1
                       /\ \A n \in found :
                            LET kind == CHOOSE m \in kinds : \A o \in kinds : m <= o
                                exact == <<0, 180, 120, 90, 60>>[kind]
                            IN  /\ ret[n].aspect = RefKindName(kind)
                                /\ ret[n].angle = exact
                                /\ ret[n].difference = d
                                /\ ret[n].orb \in {d - exact, exact - d}
                                /\ ret[n].orb \in 0..(<<8, 8, 6, 6, 4>>[kind])
                  ELSE found = {}
        /\ 2 * Len(ret) <= Len(arg) * (Len(arg) - 1)

\* three bodies of which the first two are 4 degrees apart across 0 Aries,
\* the first and third in no aspect
OneAspectPerPairWitness ==
    /\ pc = "found"
    /\ Len(arg) = 3
    /\ arg[1].v.lon = 356 /\ arg[2].v.lon = 0 /\ arg[3].v.lon = 127
    /\ Len(ret) = 1
    /\ ret[1].aspect = "Conjunction" /\ ret[1].orb = 4

(***************************************************************************)
(* Properties of the chart builder (SpecBuilder).                          *)
(***************************************************************************)
RefCanonicalSigns ==
    {"Aries", "Taurus", "Gemini", "Cancer", "Leo", "Virgo", "Libra", "Scorpio",
     "Sagittarius", "Capricorn", "Aquarius", "Pisces"}

\* the Chart has been returned by build_chart_from_birth_data
RefChartBuilt == pc \in {"idle", "resolved"}

\* C22: every Chart returned by build_chart_from_birth_data has sun_sign,
\* moon_sign and rising_sign among the 12 canonical sign labels, never a
\* null, also when a planet calculation fell back to longitude 0 and when
\* the house computation failed and the ascendant fell back to 0.
BuiltSignsAreCanonical ==
    RefChartBuilt =>
        /\ chart.sun_sign \in RefCanonicalSigns
        /\ chart.moon_sign \in RefCanonicalSigns
        /\ chart.rising_sign \in RefCanonicalSigns

\* the Sun's calculation and the house computation both failed
BuiltSignsAreCanonicalWitness ==
    /\ pc = "idle"
    /\ chart.positions[1].k = "Sun" /\ chart.positions[1].v.lon = 0
    /\ chart.positions[2].v.lon = 310
    /\ ascendant = 0
    /\ chart.sun_sign = "Aries" /\ chart.moon_sign = "Aquarius" /\ chart.rising_sign = "Aries"

(***************************************************************************)
(* Properties of sign resolution (SpecSigns).                              *)
(***************************************************************************)
\* The sign of a longitude: the i-th sign covers [30(i-1), 30i) modulo 360.
\* A longitude just below 0 lies in the last sign.
RefSignAt(lon) ==
    IF lon = TinyNegative THEN "Pisces"
    ELSE LET i == CHOOSE n \in 1..12 :
                     \E turn \in -4..4 : 30 * (n - 1) <= lon - 360 * turn
                                         /\ lon - 360 * turn < 30 * n
         IN  <<"Aries", "Taurus", "Gemini", "Cancer", "Leo", "Virgo", "Libra", "Scorpio",
               "Sagittarius", "Capricorn", "Aquarius", "Pisces">>[i]

\* C23: for every longitude, negative values and values of 360 or more
\* included, sign resolution yields SIGNS[floor((longitude mod 360) / 30)]
\* with an index in 0..11, and the engine's _infer_sign_from_lon and the
\* chart builder's zodiac_sign_from_longitude return the same sign.
SignResolutionAgrees ==
    /\ "_infer_sign_from_lon" \in DictKeys(ret) =>
          /\ DictGet(ret, "_infer_sign_from_lon", "") \in RefCanonicalSigns
          /\ DictGet(ret, "_infer_sign_from_lon", "") = RefSignAt(arg)
    /\ DictKeys(ret) = {"_infer_sign_from_lon", "zodiac_sign_from_longitude"} =>
          DictGet(ret, "_infer_sign_from_lon", "") = DictGet(ret, "zodiac_sign_from_longitude", "")

\* how many of the fields sun_sign, moon_sign, rising_sign hold the sign
RefFieldCount(sign) ==
    Cardinality({f \in {"sun_sign", "moon_sign", "rising_sign"} : chart[f] = sign})

\* the sign of each entry of chart.positions
RefPositionSigns == [i \in 1..Len(chart.positions) |-> RefSignAt(chart.positions[i].v.lon)]

\* C29: _determine_dominant_element tallies the positions keyed 'Sun' and
\* 'Moon' in addition to sun_sign and moon_sign, without de-duplication: for
\* a chart from build_chart_from_birth_data the Sun's sign and the Moon's
\* sign each count twice and the tally totals 3 + the number of positions.
LuminariesTalliedTwice ==
    pc = "resolved" =>
        LET counts == SignCounts(chart)
            signs  == RefPositionSigns
        IN  /\ DictTotal(counts) = 3 + Len(chart.positions)
            /\ \A sign \in RefCanonicalSigns :
                  DictGet(counts, sign, 0)
                      = RefFieldCount(sign)
                        + Cardinality({i \in 1..Len(signs) : signs[i] = sign})
            /\ signs[1] = chart.sun_sign /\ chart.positions[1].k = "Sun"
            /\ signs[2] = chart.moon_sign /\ chart.positions[2].k = "Moon"
            /\ DictGet(counts, chart.sun_sign, 0) >= 2
            /\ DictGet(counts, chart.moon_sign, 0) >= 2
            /\ dominant_element \in RefLeadingElements

\* Sun in Leo and Moon in Aquarius, each counted as field and as position;
\* the other bodies fell back to 0 Aries, and so did the ascendant
LuminariesTalliedTwiceWitness ==
    /\ pc = "resolved"
    /\ chart.sun_sign = "Leo" /\ chart.moon_sign = "Aquarius"
    /\ DictGet(SignCounts(chart), "Leo", 0) = 2
    /\ DictGet(SignCounts(chart), "Aquarius", 0) = 2
    /\ DictGet(SignCounts(chart), "Aries", 0) = 9
    /\ dominant_element = "Fire"

(***************************************************************************)
(* Properties of the scale generator (SpecScale).                          *)
(***************************************************************************)
\* the integer a token denotes once surrounding blanks are removed, -1 for a
\* token that denotes none
RefTokenValue(token) ==
    CASE token \in {"2", "+2"} -> 2
      [] token = "3" -> 3
      [] token = "0" -> 0
      [] token \in {"4", " 4 "} -> 4
      [] token = "5" -> 5
      [] OTHER -> -1

\* the intervals of a pattern: the values of its well-formed tokens, in order
RefIntervals(pattern) ==
    LET good == SelectSeq(pattern, LAMBDA token : RefTokenValue(token) >= 0)
    IN  [i \in 1..Len(good) |-> RefTokenValue(good[i])]

\* C24: generate_scale_notes(root, pattern, octaves) returns the root
\* followed by the running sums of the pattern's intervals repeated octaves
\* times, 1 + octaves * k notes for k parsed intervals, in ascending order
\* (rising wherever the interval is positive); a pattern that is empty or
\* has no parsable interval gives [root]; malformed tokens are ignored and
\* the remaining tokens are used.
ScaleIsRunningSums ==
    pc = "generated" =>
        LET intervals == RefIntervals(arg.pattern)
            k         == Len(intervals)
        IN  /\ ret[1] = arg.root_midi
            /\ k = 0 => ret = <<arg.root_midi>>
            /\ Len(ret) = 1 + arg.octaves * k
            /\ \A i \in 2..Len(ret) :
                  /\ ret[i] - ret[i - 1] = intervals[((i - 2) % k) + 1]
                  /\ ret[i] >= ret[i - 1]
                  /\ intervals[((i - 2) % k) + 1] > 0 => ret[i] > ret[i - 1]

\* a malformed token between two intervals, two octaves
ScaleIsRunningSumsWitness ==
    /\ pc = "generated"
    /\ arg = [root_midi |-> 60, pattern |-> <<"2", "x", " 4 ">>, octaves |-> 2]
    /\ ret = <<60, 62, 66, 68, 72>>

(***************************************************************************)
(* Properties of the MIDI generator (SpecMidi).                            *)
(***************************************************************************)
\* the semitone_pattern cell of the row with the given ID, <<>> when the
\* table has no such row or the cell is empty
RefPatternCell(table, id) ==
    IF \E i \in 1..Len(table) : table[i].k = id
    THEN table[CHOOSE i \in 1..Len(table) : table[i].k = id].v
    ELSE <<>>

\* the pattern the composition is to follow
RefMidiPattern ==
    CASE RefPatternCell(PentPatterns, result.primary_pentatonic_mode) # <<>> ->
             RefPatternCell(PentPatterns, result.primary_pentatonic_mode)
      [] RefPatternCell(QuadPatterns, result.primary_quadratonic_mode) # <<>> ->
             RefPatternCell(QuadPatterns, result.primary_quadratonic_mode)
      [] OTHER -> <<"2", "2", "3", "2", "3">>

RefMidiRoot ==
    CASE result.dominant_element = "Fire" -> 62
      [] result.dominant_element = "Earth" -> 60
      [] result.dominant_element = "Air" -> 64
      [] result.dominant_element = "Water" -> 65
      [] OTHER -> 60

\* the sum of the first n intervals, taken round and round
RECURSIVE RefRise(_, _)
RefRise(intervals, n) ==
    IF n = 0 THEN 0 ELSE RefRise(intervals, n - 1) + intervals[((n - 1) % Len(intervals)) + 1]

\* C26: generate_midi_from_result takes UNKNOWN mode IDs as valid input: the
\* pattern is that of the pentatonic mode's row when the row exists and has
\* one, otherwise that of the quadratonic mode's row, otherwise 2-2-3-2-3;
\* the composition always has exactly two tracks, lead and bass, and the
\* tempo of the result's recommended_tempo_bpm; the root note is 60 when the
\* dominant element is none of the four elements.
MidiFromAnyResult ==
    /\ (reads[FILE_PENT] > 0 /\ {FILE_PENT, FILE_QUAD} \subseteq files) =>
          "midi" \in DictKeys(outputs)
    /\ "midi" \in DictKeys(outputs) =>
          LET comp      == DictGet(outputs, "midi", <<>>)
              intervals == RefIntervals(RefMidiPattern)
              n         == 1 + 2 * Len(intervals)
              lead      == comp.tracks[1]
              bass      == comp.tracks[2]
              low       == IF n < 4 THEN n ELSE 4
          IN  /\ Len(comp.tracks) = 2
              /\ lead.name = "lead" /\ bass.name = "bass"
              /\ comp.tempo_bpm = result.sonic_payload.recommended_tempo_bpm
              /\ Len(lead.notes) = 8 * n
              /\ \A i \in 1..Len(lead.notes) :
                    lead.notes[i].midi = RefMidiRoot + RefRise(intervals, (i - 1) % n)
              /\ Len(bass.notes) = 8 * low
              /\ \A i \in 1..Len(bass.notes) :
                    bass.notes[i].midi = RefMidiRoot + RefRise(intervals, (i - 1) % low) - 12

\* no pentatonic row for UNKNOWN, the quadratonic row's pattern 3-4-5, an
\* element outside the four
MidiFromAnyResultWitness ==
    /\ "midi" \in DictKeys(outputs)
    /\ result.primary_pentatonic_mode = "UNKNOWN"
    /\ result.primary_quadratonic_mode = "QUAD-AIR"
    /\ result.dominant_element = "Unknown"
    /\ result.sonic_payload.recommended_tempo_bpm = 100
    /\ DictGet(outputs, "midi", <<>>).tempo_bpm = 100
    /\ [i \in 1..4 |-> DictGet(outputs, "midi", <<>>).tracks[1].notes[i].midi] = <<60, 63, 67, 72>>
    /\ DictGet(outputs, "midi", <<>>).tracks[2].notes[1].midi = 48

(***************************************************************************)
(* Properties of the prompt builder (SpecPrompts).                         *)
(***************************************************************************)
\* a value is a text: a tuple of literal pieces and decimal integers
RefIsText(x) ==
    /\ DOMAIN x = 1..Len(x)
    /\ \A i \in 1..Len(x) : DOMAIN x[i] \in {{"lit"}, {"dec"}}

\* a text of at least one character
RefNonEmptyText(x) ==
    /\ RefIsText(x)
    /\ \E i \in 1..Len(x) : DOMAIN x[i] = {"dec"} \/ x[i] # [lit |-> ""]

\* what json.load makes of a JSON string: a \u escape is the character
RefJsonText(text) ==
    [i \in 1..Len(text) |-> IF text[i] = [lit |-> "\\u2014"] THEN [lit |-> "U+2014"] ELSE text[i]]

\* the member of a JSON object with the given name
RefMember(file, name) == file[CHOOSE i \in 1..Len(file) : file[i].k = name].v

\* what json.load makes of the file
RefJsonLoad(file) ==
    [name \in {file[i].k : i \in 1..Len(file)} |->
        CASE name \in {"tags", "instruments"} ->
                 [i \in 1..Len(RefMember(file, name)) |-> RefJsonText(RefMember(file, name)[i])]
          [] name = "tempo_bpm" -> RefMember(file, name)
          [] OTHER -> RefJsonText(RefMember(file, name))]

\* C25: for every result object, whether its primary_pentatonic_mode is a
\* key of MODAL_STYLES or not (UNKNOWN included), build_stable_audio_prompt
\* returns a mapping with title, description and tags whose description is
\* not empty, build_suno_prompt returns a string, and export_to_json writes
\* exactly the mapping build_stable_audio_prompt returns.
PromptsForAnyMode ==
    /\ "stable_audio" \in DictKeys(outputs) =>
          LET prompt == DictGet(outputs, "stable_audio", <<>>)
          IN  /\ {"title", "description", "tags"} \subseteq DOMAIN prompt
              /\ RefNonEmptyText(prompt.description)
    /\ "suno" \in DictKeys(outputs) => RefNonEmptyText(DictGet(outputs, "suno", <<>>))
    /\ "json" \in DictKeys(outputs) =>
          /\ RefJsonLoad(DictGet(outputs, "json", <<>>)) = StableAudioPrompt(result)
          /\ "stable_audio" \in DictKeys(outputs) =>
                RefJsonLoad(DictGet(outputs, "json", <<>>)) = DictGet(outputs, "stable_audio", <<>>)

\* all three calls made for a result whose mode is UNKNOWN and whose
\* element has no description
PromptsForAnyModeWitness ==
    /\ DictKeys(outputs) = {"stable_audio", "suno", "json"}
    /\ result.primary_pentatonic_mode = "UNKNOWN"
    /\ result.dominant_element = "Unknown"
    /\ DictGet(outputs, "stable_audio", <<>>).tags
          = << <<[lit |-> "ambient"]>>, <<[lit |-> "unknown"]>>,
               <<[lit |-> "hti-"], [dec |-> result.harmonic_tension_index]>> >>

(***************************************************************************)
(* Properties of the returned HarmonicResult (SpecEngine).                 *)
(***************************************************************************)
\* C27: every HarmonicResult returned by run_harmonic_engine is consistent
\* with itself: its recommended_tempo_bpm is 60 + floor(index * 80 / 100) for
\* its own harmonic_tension_index, hence within 60..140, and its waveform is
\* the waveform of its own dominant_element; a chart with no aspects yields
\* tension 0 and tempo 60.
ResultIsSelfConsistent ==
    result # NoResult =>
        LET hti == result.harmonic_tension_index
            bpm == result.sonic_payload.recommended_tempo_bpm
        IN  /\ hti \in 0..100
            /\ 100 * (bpm - 60) <= hti * 80
            /\ hti * 80 < 100 * (bpm - 60) + 100
            /\ bpm \in 60..140
            /\ result.sonic_payload.waveform =
                  CASE result.dominant_element = "Fire" -> "sawtooth"
                    [] result.dominant_element = "Earth" -> "square"
                    [] result.dominant_element = "Air" -> "triangle"
                    [] OTHER -> "sine"
            /\ chart.aspects = <<>> => hti = 0 /\ bpm = 60

\* one exact opposition: index 15, tempo 72, and an Air chart's triangle
ResultIsSelfConsistentWitness ==
    /\ pc = "returned"
    /\ Len(chart.aspects) = 1
    /\ result.harmonic_tension_index = 15
    /\ result.sonic_payload.recommended_tempo_bpm = 72
    /\ result.dominant_element = "Air"
    /\ result.sonic_payload.waveform = "triangle"

(***************************************************************************)
(* Properties of the tension scorer under appends (SpecTension).           *)
(***************************************************************************)
\* the chart with one more aspect at the end of its list
RefWithAspect(a) == [chart EXCEPT !.aspects = Append(@, a)]

\* C28: the tension index is monotone in the aspect list: appending any
\* aspect record, of any kind and any orb, or without an orb field (which
\* counts as orb 0), never lowers the index; every aspect adds at least its
\* weight to the score, also at an orb of 10 degrees or more; an index of
\* 100 stays 100 under further appends.
TensionMonotoneUnderAppend ==
    pc = "scored" =>
        LET before == TensionScore(chart.aspects, Len(chart.aspects))
        IN  \A a \in AspectRecords :
                LET more == RefWithAspect(a).aspects
                    after == TensionScore(more, Len(more))
                    index == TensionIndex(after)
                    gain == after - before
                IN  /\ index >= tension
                    /\ tension = 100 => index = 100
                    /\ gain >= 4 * RefAspectWeight(a.aspect)
                    /\ ~a.has_orb => gain = 8 * RefAspectWeight(a.aspect)

\* a scored list that ends in a Square 12.5 degrees wide, which raised the
\* index of the list before it
TensionMonotoneUnderAppendWitness ==
    /\ pc = "scored"
    /\ Len(chart.aspects) >= 2
    /\ chart.aspects[Len(chart.aspects)] = [aspect |-> "Square", has_orb |-> TRUE, orb |-> 5]
    /\ tension > RefIndex(SubSeq(chart.aspects, 1, Len(chart.aspects) - 1))
    /\ tension < 100

(***************************************************************************)
(* Properties of the returned mode IDs (SpecOrder).                        *)
(***************************************************************************)
\* the IDs of one family that the rows of the contributors' signs carry
RefVotedIds(family) == {RefModeOf(p, family) : p \in RefContributors} \ {""}

\* C30: each mode ID returned by _aggregate_canonical_modes is UNKNOWN or the
\* ID of its family stored in the table row of the resolved sign of at least
\* one contributor; the two families are decided independently: when the
\* matching rows carry an ID for one family only, the other output is
\* UNKNOWN while the first is a real ID.
ModeIdsComeFromRows ==
    pc = "aggregated" =>
        /\ primary_pent \in RefVotedIds("pent") \cup {"UNKNOWN"}
        /\ primary_quad \in RefVotedIds("quad") \cup {"UNKNOWN"}
        /\ primary_pent = "UNKNOWN" <=> RefVotedIds("pent") = {}
        /\ primary_quad = "UNKNOWN" <=> RefVotedIds("quad") = {}

\* the only matching row, Leo's, carries a pentatonic ID and no quadratonic
\* ID
ModeIdsComeFromRowsWitness ==
    /\ pc = "aggregated"
    /\ modal_csv = TablePartial
    /\ primary_pent = "PENT-LEO-1"
    /\ primary_quad = "UNKNOWN"
    /\ chart.positions # <<>>

====
